---- MODULE Spec2Model ----
(***************************************************************************)
(* Verification model of the retrieval-and-grounding engine and of the     *)
(* automation ingest pipeline of the learning-portfolio backend.           *)
(*                                                                         *)
(*   Spec        smart_retrieve, RAGSearchView.post and AIChatView.post    *)
(*               over a KnowledgeChunk table                               *)
(*   SpecIngest  create_learning_entries_from_events over the              *)
(*               LearningEntry table                                       *)
(*   SpecChunk   chunk_text, one step per iteration of its loop            *)
(*   SpecIndex   the build_knowledge_index command and the admin document  *)
(*               upload, the writers of the KnowledgeChunk table           *)
(*   SpecModels  creation and deletion of RoadmapSection, RoadmapItem and  *)
(*               LearningEntry rows under the on_delete rules of the models*)
(*   SpecChunkFair  SpecChunk where a call in its loop goes on             *)
(*   SpecMatch   the choice of the roadmap item of an automation event     *)
(*   SpecWebhook the webhook endpoint in front of the ingestion            *)
(*   SpecRace    two ingestions that run at the same time                  *)
(*   SpecLive    SpecIndex with the source tables edited in the admin and  *)
(*               retrievals that run while the index is written            *)
(*                                                                         *)
(* Similarities and distances are kept in hundredths (0.4 is 40).          *)
(***************************************************************************)
EXTENDS Integers, Sequences, FiniteSets, TLC

VARIABLES store, req, calls, ret, resp,
          entries, ingest, result, processed,
          chunker,
          catalog, uploads, indexer,
          tables,
          matcher,
          hook,
          workers

vars == <<store, req, calls, ret, resp, entries, ingest, result, processed, chunker,
          catalog, uploads, indexer, tables, matcher, hook, workers>>
ragVars == <<store, req, calls, ret, resp>>
ingestVars == <<entries, ingest, result, processed>>
chunkVars == <<chunker>>
indexVars == <<catalog, uploads, indexer>>
\* what the steps of one component leave alone
dbVars == <<tables>>
matchVars == <<matcher>>
hookVars == <<hook>>
raceVars == <<workers>>
notRagVars == <<ingestVars, chunkVars, indexVars, dbVars, matchVars, hookVars, raceVars>>
notIngestVars == <<ragVars, chunkVars, indexVars, dbVars, matchVars, hookVars, raceVars>>
notChunkVars == <<ragVars, ingestVars, indexVars, dbVars, matchVars, hookVars, raceVars>>
notIndexVars == <<req, calls, ret, resp, ingestVars, chunkVars, dbVars, matchVars, hookVars, raceVars>>
notDbVars == <<ragVars, ingestVars, chunkVars, indexVars, matchVars, hookVars, raceVars>>
notMatchVars == <<ragVars, ingestVars, chunkVars, indexVars, dbVars, hookVars, raceVars>>
notLiveVars == <<req, calls, resp, ingestVars, chunkVars, dbVars, matchVars, hookVars, raceVars>>
notRaceVars == <<ragVars, ingest, result, processed, chunkVars, indexVars, dbVars, matchVars,
                 hookVars>>
notHookVars == <<ragVars, chunkVars, indexVars, dbVars, matchVars, raceVars>>

\* Optional values (Python's None or a value) are sequences of length 0 or 1
None == <<>>
Some(x) == <<x>>

\* ------------------------------------------------------------------ bounds
\* most KnowledgeChunk rows in the table
MaxChunks == 2
\* most lines the follow-up completion returns
MaxFollowLines == 4
\* most events of one batch
MaxEvents == 2
\* most LearningEntry rows in the table
MaxEntries == 3
\* most characters of a text given to chunk_text
MaxText == 4
\* largest max_chars given to chunk_text
MaxWindow == 3
\* largest overlap given to chunk_text
MaxOverlap == 2
\* most documents uploaded through the admin
MaxUploads == 2
\* most rows ever created in each of the tables RoadmapSection, RoadmapItem
\* and LearningEntry
MaxRows == 2
MaxCandidates == 2

\* ------------------------------------------------------- program constants
ChatTopK == 5
ChatCandidateK == 16
DefaultCandidateK == 16
SearchCandidateFloor == 16
SearchCandidateFactor == 3
VeryLowThreshold == 20
LowThreshold == 40
FollowUpCap == 3
DefaultMaxChars == 1200
DefaultOverlap == 200
EmbedMaxChars == 8000
ConfidenceThreshold == 60
MinMatchScore == 8
SectionBiasBonus == 25
BroadSectionPenalty == 15
MinTokenLen == 3

\* ------------------------------------------------------------ Python helpers
Min(a, b) == IF a < b THEN a ELSE b
Max(a, b) == IF a > b THEN a ELSE b

\* seq[:k] of Python: a negative k drops the last -k elements
PySlice(seq, k) ==
    IF k >= 0 THEN SubSeq(seq, 1, Min(k, Len(seq)))
    ELSE SubSeq(seq, 1, Max(Len(seq) + k, 0))

RECURSIVE SumSeq(_)
SumSeq(s) == IF s = <<>> THEN 0 ELSE Head(s) + SumSeq(Tail(s))

RECURSIVE MaxSeq(_)
MaxSeq(s) == IF Len(s) = 1 THEN Head(s) ELSE Max(Head(s), MaxSeq(Tail(s)))

SeqRange(s) == {s[i] : i \in 1..Len(s)}

\* str.strip() on a sequence of characters
IsSpace(c) == c \in {" ", "\n"}

RECURSIVE LStrip(_)
LStrip(s) == IF s # <<>> /\ IsSpace(Head(s)) THEN LStrip(Tail(s)) ELSE s

RECURSIVE RStrip(_)
RStrip(s) ==
    IF s # <<>> /\ IsSpace(s[Len(s)]) THEN RStrip(SubSeq(s, 1, Len(s) - 1)) ELSE s

Strip(s) == RStrip(LStrip(s))

\* ------------------------------------------------------------ KnowledgeChunk
SourceTypes == {"document", "learning_entry"}
SourceIds == {1}
\* cosine distance (hundredths) of a chunk's vector to the query vector
Distances == {60, 80, 81}
\* titles: "q" holds the one keyword the questions of the model have
Titles == {"q", "x"}

KnowledgeChunk ==
    [source_type : SourceTypes, source_id : SourceIds, title : Titles, distance : Distances]

Stores == UNION {[1..n -> KnowledgeChunk] : n \in 0..MaxChunks}

\* qs.filter(...) of smart_retrieve: the ids of the rows that pass the filters
FilteredIds(st, source_types, document_id) ==
    {i \in 1..Len(st) :
        /\ (source_types # None /\ source_types[1] # {}) =>
              st[i].source_type \in source_types[1]
        /\ document_id # None =>
              (st[i].source_type = "document" /\ st[i].source_id = document_id[1])}

\* the orders in which order_by("distance") may return the rows `ids`:
\* ascending distance, rows of equal distance in any order
DistanceOrders(st, ids) ==
    {o \in [1..Cardinality(ids) -> ids] :
        /\ \A i, j \in 1..Cardinality(ids) : i # j => o[i] # o[j]
        /\ \A i, j \in 1..Cardinality(ids) : i < j => st[o[i]].distance <= st[o[j]].distance}

Filters(source_types, document_id) ==
    [source_types |-> source_types, document_id |-> document_id]

ClassifyInclusive(scores) ==
    IF scores = <<>> THEN "no_results"
    ELSE IF MaxSeq(scores) <= VeryLowThreshold THEN "very_low_confidence"
    ELSE IF MaxSeq(scores) <= LowThreshold THEN "low_confidence"
    ELSE "ok"

\* the status of a retrieval from its scores
Classify(scores) ==
    IF scores = <<>> THEN "no_results"
    ELSE IF MaxSeq(scores) < VeryLowThreshold THEN "very_low_confidence"
    ELSE IF MaxSeq(scores) < LowThreshold THEN "low_confidence"
    ELSE "ok"

\* scored[:top_k]
TakeTop(scored, top_k) == PySlice(scored, top_k)

\* smart_retrieve; `order` is the order the database returns the filtered rows in
SmartRetrieve(st, order, top_k, candidate_k, source_types, document_id) ==
    LET ids == FilteredIds(st, source_types, document_id)
        total_available == Cardinality(ids)
    IN  IF total_available = 0
        THEN [chunks |-> <<>>,
              debug |-> [status |-> "no_results", reason |-> "no_rows_after_filters",
                         scores |-> <<>>, top_k |-> top_k, candidate_k |-> candidate_k,
                         filters |-> Filters(source_types, document_id)]]
        ELSE
        LET ck0 == IF candidate_k = None THEN Max(top_k, DefaultCandidateK) ELSE candidate_k[1]
            ck == Min(ck0, total_available)
            raw_qs == SubSeq(order, 1, ck)
        IN  IF raw_qs = <<>>
            THEN [chunks |-> <<>>,
                  debug |-> [status |-> "no_results", reason |-> "annotate_order_empty",
                             scores |-> <<>>, top_k |-> top_k, candidate_k |-> Some(ck),
                             filters |-> Filters(source_types, document_id)]]
            ELSE
            \* scored.sort(reverse=True) is stable and raw_qs is already in
            \* ascending distance, so scored keeps the order of raw_qs
            LET top == TakeTop(raw_qs, top_k)
                scores == [i \in 1..Len(top) |-> 100 - st[top[i]].distance]
                max_score == IF scores # <<>> THEN MaxSeq(scores) ELSE 0
                avg_score == IF scores # <<>> THEN SumSeq(scores) \div Len(scores) ELSE 0
            IN  [chunks |-> top,
                 debug |-> [status |-> Classify(scores), scores |-> scores,
                            max_score |-> max_score, avg_score |-> avg_score,
                            top_k |-> top_k, candidate_k |-> Some(ck),
                            total_available |-> total_available, returned |-> Len(top),
                            filters |-> Filters(source_types, document_id)]]

\* ------------------------------------------------------------ requests
\* one external call of a request: the service called and how the call ended
Call(svc, out) == [svc |-> svc, out |-> out]

Response(status, body) == [status |-> status, body |-> body]
NoResponse == [status |-> 0, body |-> [none |-> TRUE]]

NotCalled == [called |-> FALSE]
Retrieved(top_k, candidate_k, source_types, document_id, r) ==
    [called |-> TRUE, top_k |-> top_k, candidate_k |-> candidate_k,
     source_types |-> source_types, document_id |-> document_id,
     chunks |-> r.chunks, debug |-> r.debug]

\* the "question" / "query" field of a request body: absent, or a string
Questions == {None, Some(<<>>), Some(<<" ">>), Some(<<"q">>), Some(<<" ", "q", " ">>)}

\* the field is absent, empty or holds white space only (kept with the request
\* to tell what was sent)
IsBlankField(field) == field = None \/ \A i \in 1..Len(field[1]) : field[1][i] = " "

GetUnstripped(field) == IF field = None THEN <<>> ELSE field[1]

\* request.data.get(field, "").strip()
GetStripped(field) == IF field = None THEN <<>> ELSE Strip(field[1])

NoValidation == [exc |-> FALSE, status_code |-> 0, json |-> "none", is_safe |-> "absent"]

IdleReq ==
    [view |-> "idle", pc |-> "idle", blank_input |-> FALSE, not_string |-> FALSE,
     question |-> <<>>, top_k |-> 0,
     validation |-> NoValidation, config |-> "unread",
     rate_limited |-> FALSE, low_conf |-> FALSE, chunks_qs |-> <<>>,
     debug |-> [status |-> "unset"], answer |-> "unset"]

\* the context block built from one chunk of chunks_qs
ContextBlock(st, id) ==
    [id |-> id, source_type |-> st[id].source_type, title |-> st[id].title]
ContextBlocks(st, chunks_qs) == [i \in 1..Len(chunks_qs) |-> ContextBlock(st, chunks_qs[i])]

\* debug.get("max_score")
Confidence(debug) == IF "max_score" \in DOMAIN debug THEN Some(debug.max_score) ELSE None

\* ---- AIChatView.post, one action per external call of the handler

\* the answers of the validation service: the call raises (timeout, connection
\* error), or it returns a status code and a body
ValidatorOutcomes ==
    { [exc |-> TRUE,  status_code |-> 0,   json |-> "none",     is_safe |-> "absent"],
      [exc |-> FALSE, status_code |-> 503, json |-> "dict",     is_safe |-> "false"],
      [exc |-> FALSE, status_code |-> 200, json |-> "not_json", is_safe |-> "absent"],
      [exc |-> FALSE, status_code |-> 200, json |-> "list",     is_safe |-> "absent"],
      [exc |-> FALSE, status_code |-> 200, json |-> "dict",     is_safe |-> "absent"],
      [exc |-> FALSE, status_code |-> 200, json |-> "dict",     is_safe |-> "true"],
      [exc |-> FALSE, status_code |-> 200, json |-> "dict",     is_safe |-> "false"],
      [exc |-> FALSE, status_code |-> 200, json |-> "dict",     is_safe |-> "null"] }

\* not val_data.get("is_safe", True)
IsSafeFalsy(is_safe) == is_safe \in {"false", "null"}

GuardrailNeverBlocks(v) == FALSE

\* the guardrail block of the handler: TRUE when the request is blocked
GuardrailBlocks(v) ==
    /\ ~v.exc
    /\ v.status_code = 200
    /\ v.json = "dict"
    /\ IsSafeFalsy(v.is_safe)

BlockedBody(q) ==
    [answer |-> "security_alert", question |-> q, context_used |-> <<>>,
     confidence |-> Some(0), retrieval_debug |-> [status |-> "blocked"],
     follow_up_questions |-> <<>>]

NothingFoundBody(q, debug, follow_up) ==
    [answer |-> "nothing_found", question |-> q, context_used |-> <<>>,
     confidence |-> Some(0), retrieval_debug |-> debug,
     follow_up_questions |-> follow_up]

AnswerBody(q, answer, context_blocks, debug, follow_up) ==
    [answer |-> answer, question |-> q, context_used |-> context_blocks,
     confidence |-> Confidence(debug), retrieval_debug |-> debug,
     follow_up_questions |-> follow_up]

ErrorBody(msg) == [error |-> msg]

GenericFollowUps == <<"generic_1", "generic_2", "generic_3">>
FallbackFollowUps == <<"fallback_1", "fallback_2", "fallback_3">>

\* the lines a follow-up completion returns: "question" is a line that is kept,
\* "short" one that the length filter drops
FollowUpLines == UNION {[1..n -> {"question", "short"}] : n \in 0..MaxFollowLines}

CleanFollowUpsUncapped(lines) == SelectSeq(lines, LAMBDA l : l = "question")

\* the parsing of the completion in _generate_follow_up_questions
CleanFollowUps(lines) ==
    PySlice(SelectSeq(lines, LAMBDA l : l = "question"), FollowUpCap)

\* POST received: the question is read and checked
ChatReceive(question) ==
    /\ req.pc = "idle"
    /\ LET q == GetStripped(question)
       IN  IF q = <<>>
           THEN /\ req' = [IdleReq EXCEPT !.view = "chat", !.pc = "done",
                                          !.blank_input = IsBlankField(question)]
                /\ resp' = Response(400, ErrorBody("missing_question"))
           ELSE /\ req' = [IdleReq EXCEPT !.view = "chat", !.pc = "guard", !.question = q,
                                          !.blank_input = IsBlankField(question)]
                /\ resp' = NoResponse
    /\ calls' = <<>>
    /\ ret' = NotCalled
    /\ UNCHANGED <<store>>

\* POST received with a "question" that is not a string (a number, a list,
\* null): .strip() raises AttributeError, which nothing catches, and the
\* framework answers 500
ChatReceiveNotString ==
    /\ req.pc = "idle"
    /\ req' = [IdleReq EXCEPT !.view = "chat", !.pc = "done", !.not_string = TRUE]
    /\ resp' = Response(500, ErrorBody("unhandled_exception"))
    /\ calls' = <<>>
    /\ ret' = NotCalled
    /\ UNCHANGED <<store>>

\* the guardrail call to the agent service
ChatGuardrail(v) ==
    /\ req.view = "chat" /\ req.pc = "guard"
    /\ calls' = Append(calls, Call("validator", "returned"))
    /\ IF GuardrailBlocks(v)
       THEN /\ req' = [req EXCEPT !.pc = "done", !.validation = v]
            /\ resp' = Response(200, BlockedBody(req.question))
       ELSE /\ req' = [req EXCEPT !.pc = "setup", !.validation = v]
            /\ UNCHANGED resp
    /\ UNCHANGED <<store, ret>>

\* the API keys are read from the environment; the validation response is
\* not read again after the guardrail block
ChatSetup(cohere_api_key, groq_api_key) ==
    /\ req.view = "chat" /\ req.pc = "setup"
    /\ IF ~cohere_api_key
       THEN /\ req' = [req EXCEPT !.pc = "done", !.validation = NoValidation,
                                  !.config = "no_cohere_key"]
            /\ resp' = Response(500, ErrorBody("cohere_key_not_configured"))
       ELSE IF ~groq_api_key
       THEN /\ req' = [req EXCEPT !.pc = "done", !.validation = NoValidation,
                                  !.config = "no_groq_key"]
            /\ resp' = Response(500, ErrorBody("groq_key_not_configured"))
       ELSE /\ req' = [req EXCEPT !.pc = "embed", !.validation = NoValidation,
                                  !.config = "ok"]
            /\ UNCHANGED resp
    /\ UNCHANGED <<store, calls, ret>>

ChatEmbedFatal(out) ==
    /\ req.view = "chat" /\ req.pc = "embed"
    /\ calls' = Append(calls, Call("embed", out))
    /\ IF out = "raise"
       THEN /\ req' = [req EXCEPT !.pc = "done"]
            /\ resp' = Response(500, ErrorBody("embed_failed"))
       ELSE /\ req' = [req EXCEPT !.pc = "retrieve"]
            /\ UNCHANGED resp
    /\ UNCHANGED <<store, ret>>

\* 1) the question is embedded
ChatEmbed(out) ==
    /\ req.view = "chat" /\ req.pc = "embed"
    /\ calls' = Append(calls, Call("embed", out))
    /\ IF out = "raise"
       THEN req' = [req EXCEPT !.pc = "answer", !.rate_limited = TRUE,
                               !.debug = [status |-> "rate_limit_fallback"],
                               !.chunks_qs = <<>>, !.low_conf = TRUE]
       ELSE req' = [req EXCEPT !.pc = "retrieve"]
    /\ UNCHANGED <<store, ret, resp>>

ChatAfterRetrieveNoCanned(r) ==
    /\ req' = [req EXCEPT !.pc = "answer", !.debug = r.debug, !.chunks_qs = r.chunks,
                          !.low_conf = r.debug.status \in
                              {"no_results", "low_confidence", "very_low_confidence"}]
    /\ UNCHANGED resp

\* the branch of the handler after smart_retrieve returned r
ChatAfterRetrieve(r) ==
    IF r.debug.status = "no_results"
    THEN /\ req' = [req EXCEPT !.pc = "done", !.debug = r.debug, !.chunks_qs = r.chunks]
         /\ resp' = Response(200, NothingFoundBody(req.question, r.debug, GenericFollowUps))
    ELSE /\ req' = [req EXCEPT !.pc = "answer", !.debug = r.debug, !.chunks_qs = r.chunks,
                               !.low_conf = r.debug.status \in
                                              {"low_confidence", "very_low_confidence"}]
         /\ UNCHANGED resp

ChatRetrieveFatal(db, order) ==
    /\ req.view = "chat" /\ req.pc = "retrieve"
    /\ calls' = Append(calls, Call("store", db))
    /\ IF db = "raise"
       THEN /\ req' = [req EXCEPT !.pc = "done"]
            /\ resp' = Response(500, ErrorBody("search_failed"))
            /\ ret' = NotCalled
       ELSE LET r == SmartRetrieve(store, order, ChatTopK, Some(ChatCandidateK), None, None)
            IN  /\ ret' = Retrieved(ChatTopK, Some(ChatCandidateK), None, None, r)
                /\ ChatAfterRetrieve(r)
    /\ UNCHANGED <<store>>

\* 2) similarity search; db is how the database queries of smart_retrieve end
ChatRetrieve(db, order) ==
    /\ req.view = "chat" /\ req.pc = "retrieve"
    /\ calls' = Append(calls, Call("store", db))
    /\ IF db = "raise"
       THEN /\ req' = [req EXCEPT !.pc = "answer", !.chunks_qs = <<>>,
                                  !.debug = [status |-> "db_error_fallback"],
                                  !.low_conf = TRUE]
            /\ ret' = NotCalled
            /\ UNCHANGED resp
       ELSE LET r == SmartRetrieve(store, order, ChatTopK, Some(ChatCandidateK), None, None)
            IN  /\ ret' = Retrieved(ChatTopK, Some(ChatCandidateK), None, None, r)
                /\ ChatAfterRetrieve(r)
    /\ UNCHANGED <<store>>

ChatAnswerSwallows(out) ==
    /\ req.view = "chat" /\ req.pc = "answer"
    /\ calls' = Append(calls, Call("completion_answer", out))
    /\ req' = [req EXCEPT !.pc = "done", !.answer = "llm_answer"]
    /\ resp' = Response(200, AnswerBody(req.question, "llm_answer",
                            ContextBlocks(store, req.chunks_qs), req.debug, <<>>))
    /\ UNCHANGED <<store, ret>>

\* 3) the completion call for the answer
ChatAnswer(out) ==
    /\ req.view = "chat" /\ req.pc = "answer"
    /\ calls' = Append(calls, Call("completion_answer", out))
    /\ IF out = "raise"
       THEN /\ req' = [req EXCEPT !.pc = "done"]
            /\ resp' = Response(500, ErrorBody("groq_failed"))
       ELSE IF ~req.low_conf
       THEN /\ req' = [req EXCEPT !.pc = "done", !.answer = "llm_answer"]
            /\ resp' = Response(200, AnswerBody(req.question, "llm_answer",
                                    ContextBlocks(store, req.chunks_qs), req.debug, <<>>))
       ELSE IF req.chunks_qs = <<>>
       THEN /\ req' = [req EXCEPT !.pc = "done", !.answer = "llm_answer"]
            /\ resp' = Response(200, AnswerBody(req.question, "llm_answer",
                                    <<>>, req.debug, GenericFollowUps))
       ELSE /\ req' = [req EXCEPT !.pc = "followup", !.answer = "llm_answer"]
            /\ UNCHANGED resp
    /\ UNCHANGED <<store, ret>>

\* 5) the completion call for the follow-up questions
ChatFollowUp(raises, lines) ==
    /\ req.view = "chat" /\ req.pc = "followup"
    /\ calls' = Append(calls, Call("completion_followup", IF raises THEN "raise" ELSE "ok"))
    /\ req' = [req EXCEPT !.pc = "done"]
    /\ resp' = Response(200, AnswerBody(req.question, req.answer,
                            ContextBlocks(store, req.chunks_qs), req.debug,
                            IF raises THEN FallbackFollowUps ELSE CleanFollowUps(lines)))
    /\ UNCHANGED <<store, ret>>

\* ---- RAGSearchView.post
\* the top_k values of the requests: negative, zero, below and above the table size
TopKs == {-1, 0, 1, ChatTopK}

SearchCandidateK(top_k) == Max(SearchCandidateFloor, top_k * SearchCandidateFactor)

SearchBody(q, top_k, r) ==
    [success |-> TRUE, query |-> q, top_k |-> top_k, results |-> r.chunks, debug |-> r.debug]

SearchReceive(query, top_k) ==
    /\ req.pc = "idle"
    /\ LET q == GetStripped(query)
       IN  IF q = <<>>
           THEN /\ req' = [IdleReq EXCEPT !.view = "search", !.pc = "done", !.top_k = top_k,
                                          !.blank_input = IsBlankField(query)]
                /\ resp' = Response(400, ErrorBody("missing_query"))
           ELSE /\ req' = [IdleReq EXCEPT !.view = "search", !.pc = "setup",
                                          !.question = q, !.top_k = top_k,
                                          !.blank_input = IsBlankField(query)]
                /\ resp' = NoResponse
    /\ calls' = <<>>
    /\ ret' = NotCalled
    /\ UNCHANGED <<store>>

SearchSetup(cohere_api_key) ==
    /\ req.view = "search" /\ req.pc = "setup"
    /\ IF ~cohere_api_key
       THEN /\ req' = [req EXCEPT !.pc = "done"]
            /\ resp' = Response(500, ErrorBody("cohere_key_not_configured"))
       ELSE /\ req' = [req EXCEPT !.pc = "embed"]
            /\ UNCHANGED resp
    /\ UNCHANGED <<store, calls, ret>>

SearchEmbed(out) ==
    /\ req.view = "search" /\ req.pc = "embed"
    /\ calls' = Append(calls, Call("embed", out))
    /\ IF out = "raise"
       THEN /\ req' = [req EXCEPT !.pc = "done"]
            /\ resp' = Response(500, ErrorBody("embed_failed"))
       ELSE /\ req' = [req EXCEPT !.pc = "retrieve"]
            /\ UNCHANGED resp
    /\ UNCHANGED <<store, ret>>

SearchRetrieve(db, order) ==
    /\ req.view = "search" /\ req.pc = "retrieve"
    /\ calls' = Append(calls, Call("store", db))
    /\ IF db = "raise"
       THEN /\ req' = [req EXCEPT !.pc = "done"]
            /\ resp' = Response(500, ErrorBody("search_failed"))
            /\ ret' = NotCalled
       ELSE LET ck == Some(SearchCandidateK(req.top_k))
                r == SmartRetrieve(store, order, req.top_k, ck, None, None)
            IN  /\ ret' = Retrieved(req.top_k, ck, None, None, r)
                /\ req' = [req EXCEPT !.pc = "done", !.debug = r.debug, !.chunks_qs = r.chunks]
                /\ resp' = Response(200, SearchBody(req.question, req.top_k, r))
    /\ UNCHANGED <<store>>

\* ---- smart_retrieve called with filters
\* (source_types, document_id) pairs: no filter, an empty list, a type, a document
FilterCases ==
    { <<None, None>>, <<Some({}), None>>, <<Some({"learning_entry"}), None>>,
      <<None, Some(1)>> }
\* the top_k values of a direct call
DirectTopKs == {0, 1, ChatTopK}

RetrieveCall(top_k, candidate_k, source_types, document_id, order) ==
    /\ req.pc = "idle"
    /\ req' = [IdleReq EXCEPT !.view = "retrieve", !.pc = "done", !.top_k = top_k]
    /\ calls' = <<Call("store", "ok")>>
    /\ ret' = Retrieved(top_k, candidate_k, source_types, document_id,
                        SmartRetrieve(store, order, top_k, candidate_k,
                                      source_types, document_id))
    /\ resp' = NoResponse
    /\ UNCHANGED <<store>>

\* the request is over; the next one starts from a clean slate
Finish ==
    /\ req.pc = "done"
    /\ req' = IdleReq
    /\ calls' = <<>>
    /\ ret' = NotCalled
    /\ resp' = NoResponse
    /\ UNCHANGED <<store>>

\* ------------------------------------------------------------ automation ingest
\* A text is a sequence of tokens: the characters of a delivery id, and fixed
\* pieces of text that hold no delivery marker.
MarkerPrefix == "GitHub Delivery ID: "
RawEventHeader == "---\nRaw event:\n"
DefaultSummary == "Learning update captured automatically; raw event stored separately."

\* the X-GitHub-Delivery values: absent, or a non-empty string
DeliveryIds == {<<"a">>, <<"A", "b">>}
Deliveries == {None} \cup {Some(d) : d \in DeliveryIds}

Lower(c) == IF c = "A" THEN "a" ELSE IF c = "B" THEN "b" ELSE c
LowerText(t) == [i \in 1..Len(t) |-> Lower(t[i])]

\* the text `needle` occurs in the text `hay`
Contains(hay, needle) ==
    \E k \in 0..(Len(hay) - Len(needle)) :
        \A j \in 1..Len(needle) : hay[k + j] = needle[j]

\* content__icontains
IContains(hay, needle) == Contains(LowerText(hay), LowerText(needle))

\* f"GitHub Delivery ID: {delivery_id}" if delivery_id else None
DedupMarker(delivery_id) ==
    IF delivery_id # None /\ delivery_id[1] # <<>>
    THEN Some(<<MarkerPrefix>> \o delivery_id[1])
    ELSE None

BuildContentBlocksNoMarker(ai_summary, entry_content, roadmap_line, dedup_marker) ==
    <<IF ai_summary # None THEN ai_summary[1] ELSE DefaultSummary>> \o
    (IF roadmap_line # None THEN <<roadmap_line[1]>> ELSE <<>>)

\* _build_content_blocks: the content of the entry (the second component);
\* the function takes entry_content and never reads it
BuildContentBlocks(ai_summary, entry_content, roadmap_line, dedup_marker) ==
    LET summary_text == IF ai_summary # None THEN ai_summary[1] ELSE DefaultSummary
        display_block == <<summary_text>> \o
                         (IF roadmap_line # None THEN <<roadmap_line[1]>> ELSE <<>>)
        meta_block == IF dedup_marker # None
                      THEN <<RawEventHeader>> \o dedup_marker[1]
                      ELSE <<>>
    IN  display_block \o meta_block

\* LearningEntry.objects.filter(content__icontains=dedup_marker).exists()
DuplicateDelivery(table, dedup_marker) ==
    /\ dedup_marker # None
    /\ \E i \in 1..Len(table) : IContains(table[i].content, dedup_marker[1])

RollbackNothing(table, base) == table

\* leaving transaction.atomic() on an exception: the rows the transaction
\* inserted after the first `base` rows are gone
Rollback(table, base) == SubSeq(table, 1, base)

\* the delivery id written in the raw-event block of a content, if any
RECURSIVE AfterMarker(_)
AfterMarker(content) ==
    IF content = <<>> THEN None
    ELSE IF Head(content) = MarkerPrefix THEN Some(Tail(content))
    ELSE AfterMarker(Tail(content))

IngestIdle == [pc |-> "idle", delivery_id |-> None, n |-> 0, i |-> 0, base |-> 0,
               repeat |-> FALSE, created |-> <<>>]
NoResult == [kind |-> "none", created |-> 0, skipped |-> 0, reason |-> "none"]
Returned(created, skipped, reason) ==
    [kind |-> "returned", created |-> created, skipped |-> skipped, reason |-> reason]
Raised == [kind |-> "raised", created |-> 0, skipped |-> 0, reason |-> "exception"]

NeverProcessed == [d \in DeliveryIds |-> None]

\* the submission of a batch of n >= 1 events of the delivery returned: remember
\* what the first such submission created
Remember(delivery_id, ids) ==
    IF delivery_id # None /\ processed[delivery_id[1]] = None
    THEN [processed EXCEPT ![delivery_id[1]] = Some(ids)]
    ELSE processed

\* create_learning_entries_from_events up to the start of the transaction
IngestSubmit(n, delivery_id) ==
    /\ ingest.pc = "idle"
    /\ Len(entries) + n <= MaxEntries
    /\ LET dedup_marker == DedupMarker(delivery_id)
           start == [IngestIdle EXCEPT !.delivery_id = delivery_id, !.n = n,
                                       !.base = Len(entries),
                                       !.repeat = (delivery_id # None /\
                                                   processed[delivery_id[1]] # None)]
       IN  IF n = 0
           THEN /\ ingest' = [start EXCEPT !.pc = "done"]
                /\ result' = Returned(0, 0, "no_entries")
                /\ UNCHANGED processed
           ELSE IF DuplicateDelivery(entries, dedup_marker)
           THEN /\ ingest' = [start EXCEPT !.pc = "done"]
                /\ result' = Returned(0, n, "duplicate_delivery")
                /\ processed' = Remember(delivery_id, {})
           ELSE /\ ingest' = [start EXCEPT !.pc = "txn", !.i = 1]
                /\ result' = NoResult
                /\ UNCHANGED processed
    /\ UNCHANGED entries

\* how the summarization of an event ends
LlmOutcomes == {"no_api_key", "client_raises", "call_raises", "ok"}

\* the parsed content of an event
RawContents == {"Push to main: 1 commit"}

\* _summarize_entry_with_groq: the summary, or None when the LLM is unavailable
SummarizeEntryWithGroq(llm) == IF llm = "ok" THEN Some("ai summary") ELSE None

\* one iteration of the loop inside transaction.atomic(): the event is
\* summarized and classified and its entry is created; `fails` tells whether
\* classification or creation raises. The row keeps, beside its columns, the
\* event it was created for (event_content, llm)
IngestEvent(llm, entry_content, roadmap_line, fails) ==
    /\ ingest.pc = "txn"
    /\ IF fails
       THEN /\ entries' = Rollback(entries, ingest.base)
            /\ ingest' = [ingest EXCEPT !.pc = "done"]
            /\ result' = Raised
            /\ UNCHANGED processed
       ELSE LET ai_summary == SummarizeEntryWithGroq(llm)
                content == BuildContentBlocks(ai_summary, entry_content, roadmap_line,
                                              DedupMarker(ingest.delivery_id))
                id == Len(entries) + 1
                created == Append(ingest.created, id)
            IN  /\ entries' = Append(entries, [content |-> content, is_public |-> TRUE,
                                                event_content |-> entry_content,
                                                llm |-> llm])
                /\ IF ingest.i < ingest.n
                   THEN /\ ingest' = [ingest EXCEPT !.i = @ + 1, !.created = created]
                        /\ UNCHANGED <<result, processed>>
                   ELSE /\ ingest' = [ingest EXCEPT !.pc = "done", !.created = created]
                        /\ result' = Returned(Len(created), 0, "none")
                        /\ processed' = Remember(ingest.delivery_id, SeqRange(created))

IngestFinish ==
    /\ ingest.pc = "done"
    /\ ingest' = IngestIdle
    /\ result' = NoResult
    /\ UNCHANGED <<entries, processed>>

\* ------------------------------------------------------------ concurrent ingestion
\* two requests of the webhook endpoint served at the same time, each in
\* create_learning_entries_from_events with the one entry its event parses to
Workers == {1, 2}

WorkerIdle == [pc |-> "idle", delivery_id |-> None, pending |-> <<>>, created |-> 0,
               skipped |-> 0]

\* the duplicate check: a query that sees the rows committed so far
RaceCheck(p, delivery_id) ==
    /\ workers[p].pc = "idle"
    /\ Len(entries) + Cardinality({q \in Workers : workers[q].pc = "txn"}) < MaxEntries
    /\ IF DuplicateDelivery(entries, DedupMarker(delivery_id))
       THEN workers' = [workers EXCEPT ![p] = [WorkerIdle EXCEPT !.pc = "done",
                                                  !.delivery_id = delivery_id,
                                                  !.skipped = 1]]
       ELSE workers' = [workers EXCEPT ![p] = [WorkerIdle EXCEPT !.pc = "txn",
                                                  !.delivery_id = delivery_id]]
    /\ UNCHANGED entries

\* LearningEntry.objects.create(...) inside transaction.atomic(): the row is
\* in the transaction of the worker, which no other query sees
RaceInsert(p, llm, entry_content) ==
    /\ workers[p].pc = "txn"
    /\ workers[p].pending = <<>>
    /\ LET content == BuildContentBlocks(SummarizeEntryWithGroq(llm), entry_content, None,
                                         DedupMarker(workers[p].delivery_id))
       IN  workers' = [workers EXCEPT ![p].pending =
                          <<[content |-> content, is_public |-> TRUE,
                             event_content |-> entry_content, llm |-> llm]>>]
    /\ UNCHANGED entries

\* the transaction commits: its rows are in the table
RaceCommit(p) ==
    /\ workers[p].pc = "txn"
    /\ workers[p].pending # <<>>
    /\ entries' = entries \o workers[p].pending
    /\ workers' = [workers EXCEPT ![p].pc = "done", ![p].pending = <<>>,
                                  ![p].created = Len(workers[p].pending)]

\* the request is answered
RaceReturn(p) ==
    /\ workers[p].pc = "done"
    /\ workers' = [workers EXCEPT ![p] = WorkerIdle]
    /\ UNCHANGED entries

RaceInit == workers = [p \in Workers |-> WorkerIdle]

\* ------------------------------------------------------------ GitHubWebhookView
\* hmac.new(secret, payload, sha256).hexdigest(): the digest names the key and
\* the message it was computed from
HmacSha256(secret, payload) == [key |-> secret, message |-> payload]

\* the bodies of the requests: text that is not JSON, and JSON objects that
\* hold the commits of a push or the action of a pull request
Actions == {"opened", "closed", "reopened", "ready_for_review", "edited"}
Payloads ==
    {[none |-> TRUE]} \cup {[commits |-> c] : c \in 0..1} \cup {[action |-> a] : a \in Actions}
Bodies == {[json |-> FALSE]} \cup {[json |-> TRUE, payload |-> p] : p \in Payloads}

WebhookSecret == "secret"

\* the X-Hub-Signature-256 headers: absent, of another scheme, signed with
\* another key, the signature of another body, and the signature of the body
SignatureHeaders(body) ==
    { [scheme |-> "", sig |-> None],
      [scheme |-> "sha1=", sig |-> Some(HmacSha256(WebhookSecret, body))],
      [scheme |-> "sha256=", sig |-> Some(HmacSha256("guess", body))],
      [scheme |-> "sha256=", sig |-> Some(HmacSha256(WebhookSecret, [json |-> FALSE]))],
      [scheme |-> "sha256=", sig |-> Some(HmacSha256(WebhookSecret, body))] }

EventTypes == {"ping", "push", "pull_request", "issues"}

VerifySignatureAlways(secret, payload, signature_header) == TRUE

\* _verify_signature
VerifySignature(secret, payload, signature_header) ==
    /\ signature_header.scheme = "sha256="
    /\ signature_header.sig = Some(HmacSha256(secret, payload))

SupportedActions == {"opened", "closed", "reopened", "ready_for_review"}

\* parse_push_event: the number of entries it returns
ParsePushEvent(payload) ==
    LET commits == IF "commits" \in DOMAIN payload THEN payload.commits ELSE 0
    IN  IF commits = 0 THEN 0 ELSE 1

\* parse_pull_request_event: the number of entries it returns
ParsePullRequestEvent(payload) ==
    LET action == IF "action" \in DOMAIN payload THEN payload.action ELSE "unknown"
    IN  IF action \notin SupportedActions THEN 0 ELSE 1

HookResponse(status, success, message) ==
    [status |-> status, success |-> success, message |-> message]
NoHookResponse == HookResponse(0, FALSE, "none")
NoRequest == [none |-> TRUE]
HookIdle == [pc |-> "idle", request |-> NoRequest, response |-> NoHookResponse,
             before |-> <<>>]

\* GitHubWebhookView.post up to its first return or its call of
\* create_learning_entries_from_events; an absent X-GitHub-Delivery header is
\* "", which the ingestion treats as no delivery id (None)
WebhookPost(secret, signature, body, event_type, delivery_id) ==
    /\ hook.pc = "idle" /\ ingest.pc = "idle"
    /\ LET request == [secret |-> secret, signature |-> signature, body |-> body,
                       event_type |-> event_type, delivery_id |-> delivery_id]
           Answer(response) ==
               /\ hook' = [pc |-> "done", request |-> request, response |-> response,
                           before |-> entries]
               /\ UNCHANGED ingestVars
           Create(n) ==
               /\ IngestSubmit(n, delivery_id)
               /\ hook' = [pc |-> "create", request |-> request,
                           response |-> NoHookResponse, before |-> entries]
       IN  IF secret = ""
           THEN Answer(HookResponse(500, FALSE, "secret_not_configured"))
           ELSE IF ~VerifySignature(secret, body, signature)
           THEN Answer(HookResponse(401, FALSE, "invalid_signature"))
           ELSE IF ~body.json
           THEN Answer(HookResponse(400, FALSE, "invalid_json"))
           ELSE IF event_type = "ping"
           THEN Answer(HookResponse(200, TRUE, "pong"))
           ELSE IF event_type = "push"
           THEN Create(ParsePushEvent(body.payload))
           ELSE IF event_type = "pull_request"
           THEN IF ParsePullRequestEvent(body.payload) = 0
                THEN Answer(HookResponse(200, TRUE, "ignored_action"))
                ELSE Create(ParsePullRequestEvent(body.payload))
           ELSE Answer(HookResponse(200, TRUE, "ignored_event"))

\* create_learning_entries_from_events returned or raised: the response
WebhookRespond ==
    /\ hook.pc = "create" /\ ingest.pc = "done"
    /\ hook' = [hook EXCEPT !.pc = "done",
                 !.response =
                     IF result.kind = "raised"
                     THEN HookResponse(500, FALSE, "unhandled_exception")
                     ELSE HookResponse(IF result.created > 0 THEN 201 ELSE 200, TRUE,
                                       "processed")]
    /\ IngestFinish

WebhookReturn ==
    /\ hook.pc = "done"
    /\ hook' = HookIdle
    /\ UNCHANGED ingestVars

HookInit == hook = HookIdle

\* ------------------------------------------------------------ chunk_text
\* the characters of a text: white space and two letters
TextChars == {" ", "a", "b"}
Texts == UNION {[1..n -> TextChars] : n \in 0..MaxText}
MaxCharsArgs == 0..MaxWindow
OverlapArgs == (-1)..MaxOverlap

ChunkIdle ==
    [pc |-> "idle", raw |-> <<>>, text |-> <<>>, max_chars |-> 0, overlap |-> 0,
     start |-> 0, chunks |-> <<>>, spans |-> <<>>]

\* the part of text[start:end] that .strip() keeps, as positions of text
StripSpan(text, start, end) ==
    LET w == SubSeq(text, start + 1, end)
    IN  [s |-> start + (Len(w) - Len(LStrip(w))), e |-> end - (Len(w) - Len(RStrip(w)))]

ClampOverlapNone(overlap, max_chars) == overlap

\* overlap = min(overlap, max_chars // 2)
ClampOverlap(overlap, max_chars) == Min(overlap, max_chars \div 2)

NextStartSkips(end, overlap) == end + 1

\* start = end - overlap
NextStart(end, overlap) == end - overlap

\* chunk_text is called: the text is stripped; an empty text and a text that
\* fits one chunk return at once
ChunkCall(raw, max_chars, overlap) ==
    /\ chunker.pc = "idle"
    /\ LET text == Strip(raw)
           call == [ChunkIdle EXCEPT !.raw = raw, !.text = text,
                                     !.max_chars = max_chars, !.overlap = overlap]
       IN  IF text = <<>>
           THEN chunker' = [call EXCEPT !.pc = "done"]
           ELSE IF Len(text) <= max_chars
           THEN chunker' = [call EXCEPT !.pc = "done", !.chunks = <<text>>,
                                        !.spans = <<[s |-> 0, e |-> Len(text)]>>]
           ELSE chunker' = [call EXCEPT !.pc = "loop",
                                        !.overlap = ClampOverlap(overlap, max_chars)]

\* one pass of `while start < length`
ChunkIterate ==
    /\ chunker.pc = "loop"
    /\ LET text == chunker.text
           length == Len(text)
           start == chunker.start
       IN  IF ~(start < length)
           THEN chunker' = [chunker EXCEPT !.pc = "done"]
           ELSE LET end == Min(length, start + chunker.max_chars)
                    chunk == Strip(SubSeq(text, start + 1, end))
                    chunks == IF chunk # <<>> THEN Append(chunker.chunks, chunk)
                              ELSE chunker.chunks
                    spans == IF chunk # <<>>
                             THEN Append(chunker.spans, StripSpan(text, start, end))
                             ELSE chunker.spans
                IN  IF end = length
                    THEN chunker' = [chunker EXCEPT !.pc = "done", !.chunks = chunks,
                                                    !.spans = spans]
                    ELSE chunker' = [chunker EXCEPT !.chunks = chunks, !.spans = spans,
                                        !.start = NextStart(end, chunker.overlap)]

\* the caller has the chunks
ChunkReturn ==
    /\ chunker.pc = "done"
    /\ chunker' = ChunkIdle

ChunkInit == chunker = ChunkIdle

\* chunk_text as a function: the chunks of text from window start `start` on
RECURSIVE ChunkLoop(_, _, _, _)
ChunkLoop(text, max_chars, overlap, start) ==
    IF ~(start < Len(text)) THEN <<>>
    ELSE LET end == Min(Len(text), start + max_chars)
             chunk == Strip(SubSeq(text, start + 1, end))
         IN  (IF chunk # <<>> THEN <<chunk>> ELSE <<>>) \o
             (IF end = Len(text) THEN <<>>
              ELSE ChunkLoop(text, max_chars, overlap, NextStart(end, overlap)))

ChunkText(raw, max_chars, overlap) ==
    LET text == Strip(raw)
    IN  IF text = <<>> THEN <<>>
        ELSE IF Len(text) <= max_chars THEN <<text>>
        ELSE ChunkLoop(text, max_chars, ClampOverlap(overlap, max_chars), 0)

\* ------------------------------------------------------------ index building
\* the source tables the rebuild reads
ItemRows == [title : {<<"i">>}, description : {<<>>, <<"a">>}]
EntryRows == [title : {<<"e">>}, content : {<<"a">>}, is_public : BOOLEAN]
SiteRows == [title : {<<"s">>}, body : {<<"b">>}]
DocFiles == [rel_path : {"d.md"}, title : {<<"d">>}, text : {<<"c">>}]

\* a table is empty or holds one row
Tables(rows) == {<<>>} \cup {<<r>> : r \in rows}
Catalogs == [items : Tables(ItemRows), entries : Tables(EntryRows),
             site : Tables(SiteRows), docs : Tables(DocFiles)]
EmptyCatalog == [items |-> <<>>, entries |-> <<>>, site |-> <<>>, docs |-> <<>>]

\* the source_id given to KnowledgeChunk: a row id, or the path of a file
RowId(n) == [int |-> n]
FilePath(path) == [path |-> path]

\* the vector the embedding provider returns for a text
VectorOf(text) == [of |-> text]

EmbedTextNoCheck(text, ok) ==
    Some(IF ok THEN VectorOf(PySlice(Strip(text), EmbedMaxChars)) ELSE [failed |-> TRUE])

\* embed_text: the vector, or None when the text is blank or the call raises
EmbedText(text, ok) ==
    IF Strip(text) = <<>> THEN None
    ELSE IF ok THEN Some(VectorOf(PySlice(Strip(text), EmbedMaxChars)))
    ELSE None

\* f"{title}\n\n{chunk_body}"
TitledText(title, chunk_body) == title \o <<"\n", "\n">> \o chunk_body

\* one chunk the rebuild is to embed and create
Work(source_type, source_id, title, content, tags, text_to_embed) ==
    [source_type |-> source_type, source_id |-> source_id, title |-> title,
     content |-> content, tags |-> tags, text_to_embed |-> text_to_embed]

\* the chunks of the rows of a table, in order
RECURSIVE Flatten(_)
Flatten(ss) == IF ss = <<>> THEN <<>> ELSE Head(ss) \o Flatten(Tail(ss))

\* 1) roadmap items
ItemWork(cat) ==
    Flatten([k \in 1..Len(cat.items) |->
        LET item == cat.items[k]
            base_content == IF Strip(item.description) # <<>> THEN Strip(item.description)
                            ELSE item.title
            chunks == ChunkText(base_content, DefaultMaxChars, DefaultOverlap)
        IN  [j \in 1..Len(chunks) |->
                Work("roadmap_item", RowId(k), item.title, chunks[j], "roadmap",
                     TitledText(item.title, chunks[j]))]])

\* 2) public learning entries
EntryWork(cat) ==
    Flatten([k \in 1..Len(cat.entries) |->
        LET entry == cat.entries[k]
            chunks == IF entry.is_public
                      THEN ChunkText(entry.content, DefaultMaxChars, DefaultOverlap)
                      ELSE <<>>
        IN  [j \in 1..Len(chunks) |->
                Work("learning_entry", RowId(k), entry.title, chunks[j], "learning_entry",
                     TitledText(entry.title, chunks[j]))]])

\* 3) site content
SiteWork(cat) ==
    Flatten([k \in 1..Len(cat.site) |->
        LET sc == cat.site[k]
            chunks == ChunkText(sc.body, DefaultMaxChars, DefaultOverlap)
        IN  [j \in 1..Len(chunks) |->
                Work("site_content", RowId(k), sc.title, chunks[j], "site_content",
                     TitledText(sc.title, chunks[j]))]])

\* 4) the files under DOCS_ROOT: source_id is the relative path
DocWork(cat) ==
    Flatten([k \in 1..Len(cat.docs) |->
        LET doc == cat.docs[k]
            chunks == ChunkText(doc.text, DefaultMaxChars, DefaultOverlap)
        IN  [j \in 1..Len(chunks) |->
                Work("document", FilePath(doc.rel_path), doc.title, chunks[j], "doc",
                     chunks[j])]])

RebuildWork(cat) == ItemWork(cat) \o EntryWork(cat) \o SiteWork(cat) \o DocWork(cat)

\* a row of the KnowledgeChunk table as the index builders write it
IndexedChunk(source_type, source_id, title, content, tags, vector) ==
    [source_type |-> source_type, source_id |-> source_id, title |-> title,
     content |-> content, tags |-> tags, vector |-> vector]

\* source_id is an IntegerField: a value that is no number makes create() raise
IsIntegerValue(source_id) == "int" \in DOMAIN source_id

IndexerIdle ==
    [pc |-> "idle", op |-> "none", outcome |-> "none", work |-> <<>>,
     before |-> <<>>, embed_failed |-> {}]

\* handle() up to the first loop: the key is read, the table is cleared
RebuildStart(api_key) ==
    /\ indexer.pc = "idle"
    /\ IF ~api_key
       THEN /\ indexer' = [IndexerIdle EXCEPT !.pc = "over", !.op = "rebuild",
                                              !.outcome = "raised", !.before = store]
            /\ UNCHANGED store
       ELSE /\ indexer' = [IndexerIdle EXCEPT !.pc = "index", !.op = "rebuild",
                                              !.before = store,
                                              !.work = RebuildWork(catalog)]
            /\ store' = <<>>
    /\ UNCHANGED <<catalog, uploads>>

\* one chunk of the loops of handle(): it is embedded and, unless the embedding
\* failed, created; db_ok tells whether the database accepts the insert
RebuildChunk(embed_ok, db_ok) ==
    /\ indexer.pc = "index"
    /\ indexer.work # <<>>
    /\ LET w == Head(indexer.work)
           emb == EmbedText(w.text_to_embed, embed_ok)
       IN  IF emb = None
           THEN /\ indexer' = [indexer EXCEPT !.work = Tail(@),
                                              !.embed_failed = @ \cup {w}]
                /\ UNCHANGED store
           ELSE IF ~IsIntegerValue(w.source_id) \/ ~db_ok
           THEN /\ indexer' = [indexer EXCEPT !.pc = "over", !.outcome = "raised"]
                /\ UNCHANGED store
           ELSE /\ indexer' = [indexer EXCEPT !.work = Tail(@)]
                /\ store' = Append(store,
                                IndexedChunk(w.source_type, w.source_id.int, w.title,
                                             w.content, w.tags, emb[1]))
    /\ UNCHANGED <<catalog, uploads>>

\* handle() returns
RebuildEnd ==
    /\ indexer.pc = "index"
    /\ indexer.work = <<>>
    /\ indexer' = [indexer EXCEPT !.pc = "over", !.outcome = "returned"]
    /\ UNCHANGED <<store, catalog, uploads>>

\* the texts and titles of the uploaded files
UploadTexts == {<<"u">>, <<" ">>}
UploadTitles == {<<>>, <<"t">>}
FileName == <<"f">>

\* DocumentUploadAdmin.save_model; oks tells which embedding calls succeed and
\* db_ok whether the database accepts the inserts
SaveModel(title, text, oks, db_ok) ==
    /\ indexer.pc = "idle"
    /\ Len(uploads) < MaxUploads
    /\ IF Strip(text) = <<>>
       THEN /\ indexer' = [IndexerIdle EXCEPT !.pc = "over", !.op = "upload",
                                              !.outcome = "raised", !.before = store]
            /\ UNCHANGED <<store, uploads>>
       ELSE LET obj == [title |-> IF title = <<>> THEN FileName ELSE title]
                id == Len(uploads) + 1
                chunks == ChunkText(text, DefaultMaxChars, DefaultOverlap)
                embs == [j \in 1..Len(chunks) |-> EmbedText(chunks[j], oks[j])]
                kept == SelectSeq([j \in 1..Len(chunks) |-> j], LAMBDA j : embs[j] # None)
                kc_list == [n \in 1..Len(kept) |->
                               IndexedChunk("document", id, obj.title, chunks[kept[n]],
                                            "uploaded_doc", embs[kept[n]][1])]
                failed == {Work("document", RowId(id), obj.title, chunks[j],
                                "uploaded_doc", chunks[j]) :
                              j \in {i \in 1..Len(chunks) : embs[i] = None}}
            IN  IF ~db_ok
                THEN \* the exception leaves transaction.atomic(): nothing is kept
                     /\ indexer' = [IndexerIdle EXCEPT !.pc = "over", !.op = "upload",
                                                       !.outcome = "raised",
                                                       !.before = store]
                     /\ UNCHANGED <<store, uploads>>
                ELSE /\ indexer' = [IndexerIdle EXCEPT !.pc = "over", !.op = "upload",
                                                       !.outcome = "returned",
                                                       !.before = store,
                                                       !.embed_failed = failed]
                     /\ uploads' = Append(uploads, obj)
                     /\ store' = store \o kc_list
    /\ UNCHANGED catalog

\* the operation is over; the next one may start
IndexFinish ==
    /\ indexer.pc = "over"
    /\ indexer' = IndexerIdle
    /\ UNCHANGED <<store, catalog, uploads>>

\* the tables of the catalog the admin edits
SourceTables == {"items", "entries", "site"}

\* a source row is deleted in the admin: the row goes, and nothing else is
\* written (KnowledgeChunk.source_id is an IntegerField, not a foreign key)
DeleteSource(kind) ==
    /\ indexer.pc = "idle"
    /\ catalog[kind] # <<>>
    /\ catalog' = [catalog EXCEPT ![kind] = <<>>]
    /\ UNCHANGED <<store, uploads, indexer, ret>>

\* LearningEntryAdmin: is_public of an entry is edited and saved
SetVisibility(is_public) ==
    /\ indexer.pc = "idle"
    /\ catalog.entries # <<>>
    /\ catalog.entries[1].is_public # is_public
    /\ catalog' = [catalog EXCEPT !.entries[1].is_public = is_public]
    /\ UNCHANGED <<store, uploads, indexer, ret>>

\* CosineDistance(F("vector"), query_vector) in hundredths: none for a chunk
\* of the text of the query; the vectors of texts that begin alike are at the
\* same distance, those of other texts at different distances
CosineDistance(vector, query_vector) ==
    IF vector = query_vector THEN 0
    ELSE CASE Head(vector.of) = "i" -> 50
           [] Head(vector.of) = "e" -> 60
           [] Head(vector.of) = "s" -> 70
           [] OTHER -> 80

\* qs.annotate(distance=...): the rows of the table with their distance
Annotate(st, query_vector) ==
    [i \in 1..Len(st) |->
        [source_type |-> st[i].source_type, source_id |-> st[i].source_id,
         title |-> st[i].title, distance |-> CosineDistance(st[i].vector, query_vector)]]

\* what a retrieval read the table as
ReadSnapshot(st) == IF indexer.op = "rebuild" /\ indexer.pc = "index" THEN indexer.before ELSE st

\* the rows of the table as a query of smart_retrieve reads them: the rows
\* that are in the table when the query runs
ReadCommitted(st) == st

\* smart_retrieve called by a request while the index builders run; the
\* result keeps what the indexer was doing and the table the rebuild began with
LiveRetrieve(query_vector, order) ==
    /\ ~ret.called
    /\ LET st == Annotate(ReadCommitted(store), query_vector)
       IN  ret' = [window |-> [op |-> indexer.op, pc |-> indexer.pc,
                               before |-> Len(indexer.before)]] @@
                  Retrieved(ChatTopK, Some(ChatCandidateK), None, None,
                            SmartRetrieve(st, order, ChatTopK, Some(ChatCandidateK),
                                          None, None))
    /\ UNCHANGED <<store, catalog, uploads, indexer>>

\* the request is over
LiveFinish ==
    /\ ret.called
    /\ ret' = NotCalled
    /\ UNCHANGED <<store, catalog, uploads, indexer>>

IndexInit ==
    /\ uploads = <<>>
    /\ indexer = IndexerIdle

\* ------------------------------------------------------------ the models
\* tables holds the tables RoadmapSection, RoadmapItem and LearningEntry as sets of
\* rows, the id each table gives next, and what the last operation did
EmptyDb ==
    [sections |-> {}, items |-> {}, logs |-> {},
     next_section |-> 1, next_item |-> 1, next_log |-> 1,
     last |-> [op |-> "none", logs_before |-> {}, items_deleted |-> {}]]

Ids(rows) == {r.id : r \in rows}

Did(op, logs_before, items_deleted) ==
    [op |-> op, logs_before |-> logs_before, items_deleted |-> items_deleted]

CreateSection ==
    /\ tables.next_section <= MaxRows
    /\ tables' = [tables EXCEPT !.sections = @ \cup {[id |-> tables.next_section]},
                        !.next_section = @ + 1,
                        !.last = Did("create_section", tables.logs, {})]

\* RoadmapItem.section is required
CreateItem(section) ==
    /\ tables.next_item <= MaxRows
    /\ section \in Ids(tables.sections)
    /\ tables' = [tables EXCEPT !.items = @ \cup {[id |-> tables.next_item, section |-> section]},
                        !.next_item = @ + 1,
                        !.last = Did("create_item", tables.logs, {})]

\* LearningEntry.roadmap_item is optional (null=True)
CreateEntry(roadmap_item) ==
    /\ tables.next_log <= MaxRows
    /\ roadmap_item # None => roadmap_item[1] \in Ids(tables.items)
    /\ tables' = [tables EXCEPT !.logs = @ \cup {[id |-> tables.next_log,
                                          roadmap_item |-> roadmap_item]},
                        !.next_log = @ + 1,
                        !.last = Did("create_entry", tables.logs, {})]

OnDeleteItemCascade(logs, deleted) ==
    {e \in logs : e.roadmap_item = None \/ e.roadmap_item[1] \notin deleted}

\* LearningEntry.roadmap_item, on_delete=SET_NULL: the entries that refer to a
\* deleted item stay, with no item
OnDeleteItem(logs, deleted) ==
    {IF e.roadmap_item # None /\ e.roadmap_item[1] \in deleted
     THEN [e EXCEPT !.roadmap_item = None] ELSE e : e \in logs}

\* RoadmapItem.section, on_delete=CASCADE: the items of a deleted section
OnDeleteSection(items, section) == {it \in items : it.section = section}

DeleteItem(item) ==
    /\ item \in Ids(tables.items)
    /\ tables' = [tables EXCEPT !.items = {it \in @ : it.id # item},
                        !.logs = OnDeleteItem(@, {item}),
                        !.last = Did("delete_item", tables.logs, {item})]

DeleteSection(section) ==
    /\ section \in Ids(tables.sections)
    /\ LET gone == OnDeleteSection(tables.items, section)
       IN  tables' = [tables EXCEPT !.sections = {sec \in @ : sec.id # section},
                            !.items = @ \ gone,
                            !.logs = OnDeleteItem(@, Ids(gone)),
                            !.last = Did("delete_section", tables.logs, Ids(gone))]

DeleteEntry(entry) ==
    /\ entry \in Ids(tables.logs)
    /\ tables' = [tables EXCEPT !.logs = {e \in @ : e.id # entry},
                        !.last = Did("delete_entry", tables.logs, {})]

DbInit == tables = EmptyDb

\* str.lower() of one character
LowerChar(c) ==
    CASE c = "A" -> "a" [] c = "B" -> "b" [] c = "C" -> "c" [] c = "D" -> "d"
      [] c = "E" -> "e" [] c = "F" -> "f" [] c = "G" -> "g" [] c = "H" -> "h"
      [] c = "I" -> "i" [] c = "J" -> "j" [] c = "K" -> "k" [] c = "L" -> "l"
      [] c = "M" -> "m" [] c = "N" -> "n" [] c = "O" -> "o" [] c = "P" -> "p"
      [] c = "Q" -> "q" [] c = "R" -> "r" [] c = "S" -> "s" [] c = "T" -> "t"
      [] c = "U" -> "u" [] c = "V" -> "v" [] c = "W" -> "w" [] c = "X" -> "x"
      [] c = "Y" -> "y" [] c = "Z" -> "z"
      [] OTHER -> c

\* ------------------------------------------------------------ strings
\* str.lower()
RECURSIVE LowerStr(_)
LowerStr(t) ==
    IF t = "" THEN "" ELSE LowerChar(SubSeq(t, 1, 1)) \o LowerStr(SubSeq(t, 2, Len(t)))

\* needle in hay
InStr(needle, hay) ==
    \E k \in 0..(Len(hay) - Len(needle)) : SubSeq(hay, k + 1, k + Len(needle)) = needle

\* str.strip()
RECURSIVE StripStr(_)
StripStr(t) ==
    IF t = "" THEN ""
    ELSE IF IsSpace(SubSeq(t, 1, 1)) THEN StripStr(SubSeq(t, 2, Len(t)))
    ELSE IF IsSpace(SubSeq(t, Len(t), Len(t))) THEN StripStr(SubSeq(t, 1, Len(t) - 1))
    ELSE t

\* sep.join(t for t in parts if t)
RECURSIVE JoinNonEmpty(_, _)
JoinNonEmpty(parts, sep) ==
    IF parts = <<>> THEN ""
    ELSE LET rest == JoinNonEmpty(Tail(parts), sep)
         IN  IF Head(parts) = "" THEN rest
             ELSE IF rest = "" THEN Head(parts)
             ELSE Head(parts) \o sep \o rest

\* sep.join(parts)
RECURSIVE Join(_, _)
Join(parts, sep) ==
    IF parts = <<>> THEN ""
    ELSE IF Len(parts) = 1 THEN Head(parts)
    ELSE Head(parts) \o sep \o Join(Tail(parts), sep)

\* t.replace("/", " ").split(): the words of t; word is the word being read
RECURSIVE SplitFrom(_, _)
SplitFrom(t, word) ==
    IF t = "" THEN (IF word = "" THEN <<>> ELSE <<word>>)
    ELSE LET c == SubSeq(t, 1, 1)
             rest == SubSeq(t, 2, Len(t))
         IN  IF IsSpace(c) \/ c = "/"
             THEN (IF word = "" THEN <<>> ELSE <<word>>) \o SplitFrom(rest, "")
             ELSE SplitFrom(rest, word \o c)
SplitWords(t) == SplitFrom(t, "")

\* ------------------------------------------------------------ roadmap matching
\* _section_bias_tokens
SectionBiasTokens ==
    << [key |-> "agents",
        section_keywords |-> <<"agent", "mcp", "automation", "tool">>,
        tokens |-> <<"mcp", "agent", "agents", "tool", "tools", "automation", "webhook",
                     "orchestration">>,
        paths |-> <<"automation/", "mcp_server/", "agent_service/", "scripts/agents">>],
       [key |-> "rag",
        section_keywords |-> <<"rag", "vector", "embedding", "search">>,
        tokens |-> <<"rag", "retrieval", "embedding", "embeddings", "vector", "chunk",
                     "chunks", "chunking", "pgvector", "similarity", "index">>,
        paths |-> <<"vector", "embedding", "rag", "search", "knowledge">>],
       [key |-> "safety",
        section_keywords |-> <<"safety", "security", "guardrail", "audit", "evaluation",
                               "bias">>,
        tokens |-> <<"security", "guardrail", "guardrails", "audit", "safety", "jailbreak",
                     "attack", "defense", "bias", "eval", "evaluation">>,
        paths |-> <<"security", "audit", "guardrail", "safety", "tests/security">>] >>

\* the rows of RoadmapItem with the title of their section, in the order the
\* queries return them
AgentsItem ==
    [id |-> 1, title |-> "MCP installation, tools, custom tools",
     description |-> "Multi-agent systems and automation",
     section_title |-> "2. Agents + MCP"]
RagItem ==
    [id |-> 2, title |-> "Embeddings, vector DBs, chunking",
     description |-> "Vector stores and retrieval",
     section_title |-> "3. RAG Systems"]
Taxonomies == {<<>>, <<AgentsItem, RagItem>>}

\* what the summarization proposes: section, item and confidence (hundredths)
Candidate(section, item, confidence) ==
    [section |-> section, item |-> item, confidence |-> confidence]

\* sorted(candidates, key=confidence, reverse=True): stable, so candidates of
\* equal confidence keep their order
RECURSIVE SortByConfidence(_)
SortByConfidence(cands) ==
    IF cands = <<>> THEN <<>>
    ELSE LET top == CHOOSE i \in 1..Len(cands) :
                       /\ \A j \in 1..Len(cands) : cands[j].confidence <= cands[i].confidence
                       /\ \A j \in 1..(i - 1) : cands[j].confidence < cands[i].confidence
         IN  <<cands[top]>> \o
             SortByConfidence(SubSeq(cands, 1, top - 1) \o SubSeq(cands, top + 1, Len(cands)))

\* the rows the filters of a candidate keep, in order
CandidateRows(items, cand) ==
    LET item_name == LowerStr(StripStr(cand.item))
        section_name == LowerStr(StripStr(cand.section))
    IN  SelectSeq(items, LAMBDA it :
            /\ item_name # "" => LowerStr(it.title) = item_name
            /\ section_name # "" => LowerStr(it.section_title) = section_name)

\* _select_item_from_llm_candidates over the candidates in sorted order
RECURSIVE SelectFrom(_, _)
SelectFrom(items, ordered) ==
    IF ordered = <<>> THEN None
    ELSE IF Head(ordered).confidence < ConfidenceThreshold
    THEN SelectFrom(items, Tail(ordered))
    ELSE LET qs == CandidateRows(items, Head(ordered))
         IN  IF qs # <<>> THEN Some(qs[1].id) ELSE SelectFrom(items, Tail(ordered))

SelectItemFromLlmCandidates(items, candidates) ==
    SelectFrom(items, SortByConfidence(candidates))

SectionKeyFirst(section_title_lower) == Some(SectionBiasTokens[1])

\* the first key of the bias table one of whose section keywords is in the
\* title of the section
SectionKey(section_title_lower) ==
    LET hits == SelectSeq(SectionBiasTokens, LAMBDA cfg :
                    \E i \in 1..Len(cfg.section_keywords) :
                       InStr(cfg.section_keywords[i], section_title_lower))
    IN  IF hits = <<>> THEN None ELSE Some(hits[1])

SectionBiasScore(section_title_lower, text, file_paths) ==
    LET key == SectionKey(section_title_lower)
    IN  IF key = None THEN 0
        ELSE (IF \E i \in 1..Len(key[1].tokens) : InStr(key[1].tokens[i], text)
              THEN SectionBiasBonus ELSE 0) +
             (IF \E i \in 1..Len(key[1].paths) : \E j \in 1..Len(file_paths) :
                    InStr(key[1].paths[i], LowerStr(file_paths[j]))
              THEN SectionBiasBonus ELSE 0)

\* the bonus of the candidates for an item: the largest bonus of a candidate
\* that names the item, or else its section
RECURSIVE LlmBonus(_, _, _)
LlmBonus(candidates, title, section_title_lower) ==
    IF candidates = <<>> THEN 0
    ELSE LET cand == Head(candidates)
             rest == LlmBonus(Tail(candidates), title, section_title_lower)
             item_name == LowerStr(cand.item)
             section_name == LowerStr(cand.section)
         IN  IF cand.confidence <= 0 THEN rest
             ELSE IF item_name # "" /\ item_name = title
             THEN Max(rest, (cand.confidence * 50) \div 100)
             ELSE IF section_name # "" /\ section_name = section_title_lower
             THEN Max(rest, (cand.confidence * 25) \div 100)
             ELSE rest

\* the score _match_roadmap_item_by_text gives an item
ItemScore(item, text, file_paths, llm_candidates) ==
    LET title == LowerStr(item.title)
        desc == LowerStr(item.description)
        section_title_lower == LowerStr(item.section_title)
        Phrase(phrase, weight) ==
            IF phrase # "" /\ InStr(phrase, text) THEN Len(phrase) * weight ELSE 0
        Tokens(chunk, weight) ==
            LET toks == SplitWords(chunk)
            IN  SumSeq([i \in 1..Len(toks) |->
                           IF Len(toks[i]) >= MinTokenLen /\ InStr(toks[i], text)
                           THEN Len(toks[i]) * weight ELSE 0])
        section_bias_score == SectionBiasScore(section_title_lower, text, file_paths)
        llm_bonus == LlmBonus(llm_candidates, title, section_title_lower)
        broad_section_penalty ==
            IF InStr("foundation", section_title_lower) /\ section_bias_score = 0
            THEN BroadSectionPenalty ELSE 0
    IN  Phrase(title, 3) + Phrase(desc, 2) + Phrase(section_title_lower, 4)
        + Tokens(title, 2) + Tokens(desc, 1) + Tokens(section_title_lower, 3)
        + section_bias_score + llm_bonus - broad_section_penalty

\* the loop over the items: the first item with the highest score so far
RECURSIVE BestItem(_, _, _, _, _)
BestItem(items, text, file_paths, llm_candidates, best) ==
    IF items = <<>> THEN best
    ELSE LET score == ItemScore(Head(items), text, file_paths, llm_candidates)
         IN  BestItem(Tail(items), text, file_paths, llm_candidates,
                      IF score > best.score
                      THEN [id |-> Some(Head(items).id), score |-> score]
                      ELSE best)

\* return best_id if best_score >= 8 else None
MatchThreshold(best) == IF best.score >= MinMatchScore THEN best.id ELSE None

\* _match_roadmap_item_by_text
MatchRoadmapItemByText(items, summary, raw, file_paths, llm_candidates) ==
    IF items = <<>> THEN None
    ELSE LET text == LowerStr(JoinNonEmpty(<<summary, raw>>, " "))
         IN  IF StripStr(text) = "" THEN None
             ELSE MatchThreshold(BestItem(items, text, file_paths, llm_candidates,
                                          [id |-> None, score |-> 0]))

\* _guess_roadmap_item_id
GuessRoadmapItemId(items, messages) ==
    IF messages = <<>> THEN None
    ELSE LET message_blob == LowerStr(Join(messages, " "))
             hits == SelectSeq(items, LAMBDA it :
                         LowerStr(it.title) # "" /\ InStr(LowerStr(it.title), message_blob))
         IN  IF hits = <<>> THEN None ELSE Some(hits[1].id)

ChooseItemTextFirst(llm_match_id, text_match_id, guess_id) ==
    IF text_match_id # None THEN text_match_id
    ELSE IF llm_match_id # None THEN llm_match_id
    ELSE guess_id

\* llm_match_id or _match_roadmap_item_by_text(...) or _guess_roadmap_item_id(...)
ChooseItem(llm_match_id, text_match_id, guess_id) ==
    IF llm_match_id # None THEN llm_match_id
    ELSE IF text_match_id # None THEN text_match_id
    ELSE guess_id

MatcherIdle ==
    [pc |-> "idle", items |-> <<>>, llm_candidates |-> <<>>, summary |-> "", raw |-> "",
     files |-> <<>>, messages |-> <<>>,
     llm_match_id |-> None, text_match_id |-> None, guess_id |-> None,
     roadmap_item_id |-> None]

\* the classification of one event in create_learning_entries_from_events
ClassifyEvent(items, llm_candidates, summary, raw, files, messages) ==
    /\ matcher.pc = "idle"
    /\ LET llm_match_id == SelectItemFromLlmCandidates(items, llm_candidates)
           text_match_id == MatchRoadmapItemByText(items, summary, raw, files,
                                                   llm_candidates)
           guess_id == GuessRoadmapItemId(items, messages)
       IN  matcher' = [pc |-> "done", items |-> items, llm_candidates |-> llm_candidates,
                       summary |-> summary, raw |-> raw, files |-> files,
                       messages |-> messages,
                       llm_match_id |-> llm_match_id, text_match_id |-> text_match_id,
                       guess_id |-> guess_id,
                       roadmap_item_id |-> ChooseItem(llm_match_id, text_match_id, guess_id)]

ClassifyReturn ==
    /\ matcher.pc = "done"
    /\ matcher' = MatcherIdle

MatchInit == matcher = MatcherIdle

\* the sequences of at most n different elements of a set
RECURSIVE SeqsUpTo(_, _)
SeqsUpTo(S, n) ==
    IF n = 0 THEN {<<>>}
    ELSE LET shorter == SeqsUpTo(S, n - 1)
         IN  shorter \cup
             UNION {{Append(q, x) : x \in {y \in S : \A k \in 1..Len(q) : q[k] # y}} :
                    q \in shorter}

\* the candidates a summarization returns
LlmCandidates ==
    { Candidate("3. RAG Systems", "Embeddings, vector DBs, chunking", 90),
      Candidate("2. Agents + MCP", "MCP installation, tools, custom tools", 60),
      Candidate("2. Agents + MCP", "", 59),
      Candidate("4. Deployment", "Containers", 95),
      Candidate("", " ", 70) }

RetrievalTexts ==
    { "Added vector DB embeddings and chunking improvements for retrieval",
      "vector", "embeddings", "chunking", "retrieval" }
ToolTexts ==
    { "Improved Groq webhook for MCP agents and automation of tool calls",
      "MCP", "agents", "automation", "tool" }
NeutralTexts == { "", "Updated UI colors and typography" }
EventSummaries == RetrievalTexts \cup ToolTexts \cup NeutralTexts
Raws == { "", "Refactor settings" }
FileLists == { <<>>, <<"backend/automation/tasks.py">> }
MessageLists ==
    { <<>>, <<"Fix typo">>, <<"Fix typo", "Add MCP installation, tools, custom tools">> }


\* ---- the retrieval specification
IngestInit ==
    /\ entries = <<>>
    /\ ingest = IngestIdle
    /\ result = NoResult
    /\ processed = NeverProcessed

RagInit ==
    /\ req = IdleReq
    /\ calls = <<>>
    /\ ret = NotCalled
    /\ resp = NoResponse

Init ==
    /\ store \in Stores
    /\ RagInit
    /\ IngestInit
    /\ ChunkInit
    /\ catalog = EmptyCatalog
    /\ IndexInit
    /\ DbInit
    /\ MatchInit
    /\ HookInit
    /\ RaceInit

AllOrders == DistanceOrders(store, FilteredIds(store, None, None))

Next ==
    \/ \E question \in Questions : ChatReceive(question) /\ UNCHANGED notRagVars
    \/ ChatReceiveNotString /\ UNCHANGED notRagVars
    \/ \E v \in ValidatorOutcomes : ChatGuardrail(v) /\ UNCHANGED notRagVars
    \/ \E ck, gk \in BOOLEAN : ChatSetup(ck, gk) /\ UNCHANGED notRagVars
    \/ \E out \in {"ok", "raise"} : ChatEmbed(out) /\ UNCHANGED notRagVars
    \/ \E db \in {"ok", "raise"}, order \in AllOrders :
          ChatRetrieve(db, order) /\ UNCHANGED notRagVars
    \/ \E out \in {"ok", "raise"} : ChatAnswer(out) /\ UNCHANGED notRagVars
    \/ \E raises \in BOOLEAN, lines \in FollowUpLines :
          ChatFollowUp(raises, lines) /\ UNCHANGED notRagVars
    \/ \E query \in Questions, top_k \in TopKs :
          SearchReceive(query, top_k) /\ UNCHANGED notRagVars
    \/ \E ck \in BOOLEAN : SearchSetup(ck) /\ UNCHANGED notRagVars
    \/ \E out \in {"ok", "raise"} : SearchEmbed(out) /\ UNCHANGED notRagVars
    \/ \E db \in {"ok", "raise"}, order \in AllOrders :
          SearchRetrieve(db, order) /\ UNCHANGED notRagVars
    \/ \E top_k \in DirectTopKs, candidate_k \in {None, Some(1)}, f \in FilterCases :
          \E order \in DistanceOrders(store, FilteredIds(store, f[1], f[2])) :
             RetrieveCall(top_k, candidate_k, f[1], f[2], order) /\ UNCHANGED notRagVars
    \/ Finish /\ UNCHANGED notRagVars

Spec == Init /\ [][Next]_vars

\* ---- the ingest specification
InitIngest ==
    /\ store = <<>>
    /\ RagInit
    /\ IngestInit
    /\ ChunkInit
    /\ catalog = EmptyCatalog
    /\ IndexInit
    /\ DbInit
    /\ MatchInit
    /\ HookInit
    /\ RaceInit

RoadmapLines == {None, Some("Related to: section > item")}

NextIngest ==
    \/ \E n \in 0..MaxEvents, delivery_id \in Deliveries :
          IngestSubmit(n, delivery_id) /\ UNCHANGED notIngestVars
    \/ \E llm \in LlmOutcomes, entry_content \in RawContents,
          roadmap_line \in RoadmapLines, fails \in BOOLEAN :
          IngestEvent(llm, entry_content, roadmap_line, fails) /\ UNCHANGED notIngestVars
    \/ IngestFinish /\ UNCHANGED notIngestVars

SpecIngest == InitIngest /\ [][NextIngest]_vars

\* ---- the chunking specification
NextChunk ==
    \/ \E raw \in Texts, max_chars \in MaxCharsArgs, overlap \in OverlapArgs :
          ChunkCall(raw, max_chars, overlap) /\ UNCHANGED notChunkVars
    \/ ChunkIterate /\ UNCHANGED notChunkVars
    \/ ChunkReturn /\ UNCHANGED notChunkVars

SpecChunk == InitIngest /\ [][NextChunk]_vars

\* a call of chunk_text that is in its loop runs the next pass of the loop
SpecChunkFair == SpecChunk /\ WF_vars(ChunkIterate /\ UNCHANGED notChunkVars)

\* ---- the index-building specification
InitIndex ==
    /\ store = <<>>
    /\ RagInit
    /\ IngestInit
    /\ ChunkInit
    /\ catalog \in Catalogs
    /\ IndexInit
    /\ DbInit
    /\ MatchInit
    /\ HookInit
    /\ RaceInit

NextIndex ==
    \/ \E api_key \in BOOLEAN : RebuildStart(api_key) /\ UNCHANGED notIndexVars
    \/ \E embed_ok, db_ok \in BOOLEAN : RebuildChunk(embed_ok, db_ok) /\ UNCHANGED notIndexVars
    \/ RebuildEnd /\ UNCHANGED notIndexVars
    \/ \E title \in UploadTitles, text \in UploadTexts, oks \in [1..1 -> BOOLEAN],
          db_ok \in BOOLEAN :
          SaveModel(title, text, oks, db_ok) /\ UNCHANGED notIndexVars
    \/ IndexFinish /\ UNCHANGED notIndexVars

SpecIndex == InitIndex /\ [][NextIndex]_vars

\* ---- the specification of the models
NextModels ==
    \/ CreateSection /\ UNCHANGED notDbVars
    \/ \E section \in 1..MaxRows : CreateItem(section) /\ UNCHANGED notDbVars
    \/ \E roadmap_item \in {None} \cup {Some(i) : i \in 1..MaxRows} :
          CreateEntry(roadmap_item) /\ UNCHANGED notDbVars
    \/ \E item \in 1..MaxRows : DeleteItem(item) /\ UNCHANGED notDbVars
    \/ \E section \in 1..MaxRows : DeleteSection(section) /\ UNCHANGED notDbVars
    \/ \E entry \in 1..MaxRows : DeleteEntry(entry) /\ UNCHANGED notDbVars

SpecModels == InitIngest /\ [][NextModels]_vars

\* ---- the index with its sources edited and read
QueryVectors == {VectorOf(<<"q">>), VectorOf(TitledText(<<"s">>, <<"b">>))}

\* a request lasts no longer than the operation of the indexer it met: the
\* next operation and the next edit begin when the request is over
NextLive ==
    \/ ~ret.called /\ RebuildStart(TRUE) /\ UNCHANGED notIndexVars
    \/ \E embed_ok \in BOOLEAN : RebuildChunk(embed_ok, TRUE) /\ UNCHANGED notIndexVars
    \/ RebuildEnd /\ UNCHANGED notIndexVars
    \/ ~ret.called /\ SaveModel(<<"t">>, <<"u">>, <<TRUE>>, TRUE) /\ UNCHANGED notIndexVars
    \/ ~ret.called /\ IndexFinish /\ UNCHANGED notIndexVars
    \/ \E kind \in SourceTables :
          ~ret.called /\ DeleteSource(kind) /\ UNCHANGED notLiveVars
    \/ \E is_public \in BOOLEAN :
          ~ret.called /\ SetVisibility(is_public) /\ UNCHANGED notLiveVars
    \/ \E query_vector \in QueryVectors :
          \E order \in DistanceOrders(Annotate(ReadCommitted(store), query_vector),
                                      1..Len(ReadCommitted(store))) :
             LiveRetrieve(query_vector, order) /\ UNCHANGED notLiveVars
    \/ LiveFinish /\ UNCHANGED notLiveVars

\* one roadmap item, one public learning entry and one site page; no file
\* under DOCS_ROOT
LiveCatalog ==
    [items |-> <<[title |-> <<"i">>, description |-> <<"a">>]>>,
     entries |-> <<[title |-> <<"e">>, content |-> <<"a">>, is_public |-> TRUE]>>,
     site |-> <<[title |-> <<"s">>, body |-> <<"b">>]>>,
     docs |-> <<>>]

InitLive ==
    /\ store = <<>>
    /\ RagInit
    /\ IngestInit
    /\ ChunkInit
    /\ catalog = LiveCatalog
    /\ IndexInit
    /\ DbInit
    /\ MatchInit
    /\ HookInit
    /\ RaceInit

SpecLive == InitLive /\ [][NextLive]_vars

\* ---- the concurrent ingestion specification
NextRace ==
    \/ \E p \in Workers, delivery_id \in Deliveries :
          RaceCheck(p, delivery_id) /\ UNCHANGED notRaceVars
    \/ \E p \in Workers :
          RaceInsert(p, "no_api_key", "Push to main: 1 commit") /\ UNCHANGED notRaceVars
    \/ \E p \in Workers : RaceCommit(p) /\ UNCHANGED notRaceVars
    \/ \E p \in Workers : RaceReturn(p) /\ UNCHANGED notRaceVars

SpecRace == InitIngest /\ [][NextRace]_vars

\* ---- the webhook specification
NextWebhook ==
    \/ /\ \E secret \in {"", WebhookSecret}, body \in Bodies, event_type \in EventTypes,
             delivery_id \in Deliveries :
             \E signature \in SignatureHeaders(body) :
                WebhookPost(secret, signature, body, event_type, delivery_id)
       /\ UNCHANGED notHookVars
    \/ /\ hook.pc = "create"
       /\ \E fails \in BOOLEAN : IngestEvent("ok", "Push to main: 1 commit", None, fails)
       /\ UNCHANGED <<notHookVars, hook>>
    \/ /\ WebhookRespond
       /\ UNCHANGED notHookVars
    \/ /\ WebhookReturn
       /\ UNCHANGED notHookVars

SpecWebhook == InitIngest /\ [][NextWebhook]_vars

\* ---- the roadmap matching specification
NextMatch ==
    \/ /\ \E items \in Taxonomies, llm_candidates \in SeqsUpTo(LlmCandidates, MaxCandidates),
             summary \in EventSummaries, raw \in Raws, files \in FileLists,
             messages \in MessageLists :
             ClassifyEvent(items, llm_candidates, summary, raw, files, messages)
       /\ UNCHANGED notMatchVars
    \/ /\ ClassifyReturn
       /\ UNCHANGED notMatchVars

SpecMatch == InitIngest /\ [][NextMatch]_vars

\* ------------------------------------------------------------ properties
HasCall(svc, out) == \E i \in 1..Len(calls) : calls[i].svc = svc /\ calls[i].out = out
CallCount(svc) == Cardinality({i \in 1..Len(calls) : calls[i].svc = svc})
CompletionCalls == CallCount("completion_answer") + CallCount("completion_followup")

\* the rows that pass the filters of the retrieval of the request
Available == FilteredIds(store, ret.source_types, ret.document_id)

\* C1 (as claimed): whenever an endpoint's call of smart_retrieve finds at least
\* one chunk that passes the filters, the list it returns is not empty.
C1_NonEmptyWhenAvailable ==
    (req.view \in {"chat", "search"} /\ ret.called /\ Available # {})
        => ret.chunks # <<>>

FallbackStatuses == {"rate_limit_fallback", "db_error_fallback"}

\* C2: a chat request whose embedding call or vector query raised goes on to
\* the completion call for the answer; it ends with HTTP 200 and a fallback
\* status in retrieval_debug, or with HTTP 500 only because that completion
\* call raised.
C2_FailureDegradesToFallback ==
    (req.view = "chat" /\ (HasCall("embed", "raise") \/ HasCall("store", "raise")))
        => /\ req.pc \in {"answer", "followup", "done"}
           /\ req.debug.status \in FallbackStatuses
           /\ req.pc # "answer" => CallCount("completion_answer") = 1
           /\ req.pc = "done" =>
                \/ /\ resp.status = 200
                   /\ resp.body.retrieval_debug.status \in FallbackStatuses
                \/ /\ resp.status = 500
                   /\ HasCall("completion_answer", "raise")

C2_Witness ==
    /\ req.view = "chat" /\ req.pc = "done"
    /\ HasCall("embed", "raise")
    /\ resp.status = 200
    /\ resp.body.retrieval_debug.status = "rate_limit_fallback"

\* the entries whose raw-event block holds the marker of delivery d
Carriers(d) == {i \in 1..Len(entries) : AfterMarker(entries[i].content) = Some(d)}

\* C3: a batch of n >= 1 events submitted with a delivery id of which a
\* submission already returned creates nothing: it returns created = 0 and
\* skipped = n and the number of entries is unchanged; and the entries that
\* carry the marker of a delivery are those its first submission created.
C3_DeliveryIdempotent ==
    /\ ingest.repeat => ingest.pc = "done"
    /\ (ingest.pc = "done" /\ ingest.repeat /\ ingest.n >= 1) =>
          /\ result = Returned(0, ingest.n, "duplicate_delivery")
          /\ Len(entries) = ingest.base
    /\ \A d \in DeliveryIds : processed[d] # None => Carriers(d) = processed[d][1]

C3_Witness ==
    /\ ingest.pc = "done" /\ ingest.repeat /\ ingest.n >= 1
    /\ processed[ingest.delivery_id[1]] # Some({})
    /\ result.skipped = ingest.n

\* C4: when create_learning_entries_from_events is over, the table holds one
\* new entry for every event of the batch or no new entry at all, and none
\* when the processing of an event raised.
C4_BatchAtomic ==
    ingest.pc = "done" =>
        /\ Len(entries) \in {ingest.base, ingest.base + ingest.n}
        /\ result.kind = "raised" => Len(entries) = ingest.base
        /\ result.kind = "returned" => Len(entries) = ingest.base + result.created

C4_Witness ==
    /\ ingest.pc = "done" /\ result.kind = "raised"
    /\ ingest.created # <<>>
    /\ Len(entries) = ingest.base

\* the keywords of a question: its words (no stop word among them)
Keywords(question) == SeqRange(question) \ {" "}
KeywordChunks == {i \in 1..Len(store) : store[i].title \in Keywords(req.question)}
DegradedStatuses ==
    FallbackStatuses \cup {"low_confidence", "very_low_confidence"}

\* C5 (as claimed): when the vector path of a chat request is degraded and a
\* chunk's title holds a keyword of the question, the answer's context holds
\* such a chunk and the confidence is not low.
C5_KeywordMatchNotLow ==
    (/\ req.view = "chat" /\ req.pc = "done" /\ resp.status = 200
     /\ resp.body.retrieval_debug.status \in DegradedStatuses
     /\ KeywordChunks # {})
        => /\ \E i \in 1..Len(resp.body.context_used) :
                 resp.body.context_used[i].id \in KeywordChunks
           /\ ~req.low_conf

\* C6: when no chunk passes the filters smart_retrieve returns no chunk and the
\* status no_results, and the chat request that made the call ends with HTTP
\* 200, the canned answer, an empty context, confidence 0 and no completion call.
C6_EmptyStorePath ==
    (ret.called /\ Available = {}) =>
        /\ ret.chunks = <<>>
        /\ ret.debug.status = "no_results"
        /\ req.view = "chat" =>
              /\ req.pc = "done"
              /\ resp.status = 200
              /\ resp.body.answer = "nothing_found"
              /\ resp.body.context_used = <<>>
              /\ resp.body.confidence = Some(0)
              /\ resp.body.retrieval_debug.status = "no_results"
              /\ CompletionCalls = 0

C6_Witness ==
    /\ req.view = "chat" /\ req.pc = "done" /\ ret.called
    /\ store = <<>>
    /\ resp.body.answer = "nothing_found"

\* C7: a chat request whose question is absent, empty or white space only is
\* answered 400 and makes no call to the validator, the embedding provider,
\* the store or the completion provider.
C7_BlankQuestionRejected ==
    (req.view = "chat" /\ req.blank_input) =>
        /\ req.pc = "done"
        /\ resp.status = 400
        /\ calls = <<>>
        /\ ~ret.called

C7_Witness ==
    /\ req.view = "chat" /\ req.blank_input /\ resp.status = 400

\* the validator answered 200 with is_safe = false
ExplicitUnsafe(v) ==
    ~v.exc /\ v.status_code = 200 /\ v.json = "dict" /\ v.is_safe = "false"

\* C8: in a chat request with a non-blank question the validator is called
\* first and once, before any embedding, store or completion call; and when
\* it answers is_safe = false the request ends with the security-block answer,
\* an empty context and no follow-up question, with no other call made.
C8_SafetyFirst ==
    req.view = "chat" =>
        /\ calls # <<>> => /\ calls[1].svc = "validator"
                           /\ CallCount("validator") = 1
        /\ (~req.blank_input /\ ~req.not_string /\ req.pc # "guard") => calls # <<>>
        /\ ExplicitUnsafe(req.validation) =>
              /\ req.pc = "done"
              /\ resp = Response(200, BlockedBody(req.question))
              /\ resp.body.context_used = <<>>
              /\ resp.body.follow_up_questions = <<>>
              /\ calls = <<Call("validator", "returned")>>
              /\ ~ret.called

C8_Witness ==
    /\ req.view = "chat" /\ req.pc = "done"
    /\ ExplicitUnsafe(req.validation)
    /\ resp.body.answer = "security_alert"

\* C9: when the completion call for the answer raises, the chat request ends
\* with HTTP 500 and that call was made once; no request makes it twice.
C9_CompletionFailureFatal ==
    req.view = "chat" =>
        /\ CallCount("completion_answer") <= 1
        /\ HasCall("completion_answer", "raise") =>
              /\ req.pc = "done"
              /\ resp.status = 500
              /\ calls[Len(calls)] = Call("completion_answer", "raise")

C9_Witness ==
    /\ req.view = "chat" /\ req.pc = "done"
    /\ HasCall("completion_answer", "raise")
    /\ resp.status = 500

\* C10 (as claimed): whatever the validator call does other than answering
\* is_safe = false, the request is not blocked and goes on as for a question
\* judged safe.
C10_OnlyExplicitFalseBlocks ==
    (/\ req.view = "chat"
     /\ req.validation # NoValidation
     /\ ~ExplicitUnsafe(req.validation))
        => /\ req.pc = "setup"
           /\ resp = NoResponse

\* the reasons for which a chat request may end with an error status
ConfigMissing == req.config \in {"no_cohere_key", "no_groq_key"}

\* C11 (as claimed): a chat request (its question absent or a string) ends
\* with an error status only when its question was blank or when the
\* completion call for the answer failed.
C11_ErrorOnlyBlankOrCompletion ==
    (req.view = "chat" /\ req.pc = "done" /\ ~req.not_string /\ resp.status # 200) =>
        \/ req.blank_input /\ resp.status = 400
        \/ HasCall("completion_answer", "raise")

\* C11 (amended): a chat request ends with an error status exactly when its
\* question was missing, blank or not a string, when a provider API key is
\* not configured, or when the completion call for the answer failed; on
\* every other path (low confidence, no results, embedding failure, store
\* failure, validator failure) it ends with HTTP 200 and an answer field.
C11_ErrorStatusCauses ==
    (req.view = "chat" /\ req.pc = "done") =>
        /\ resp.status \in {200, 400, 500}
        /\ resp.status # 200 <=>
              \/ req.blank_input
              \/ req.not_string
              \/ ConfigMissing
              \/ HasCall("completion_answer", "raise")
        /\ resp.status = 400 <=> req.blank_input
        /\ resp.status = 200 =>
              /\ "answer" \in DOMAIN resp.body
              /\ resp.body.answer \in {"security_alert", "nothing_found", "llm_answer"}

C11_Witness ==
    /\ req.view = "chat" /\ req.pc = "done"
    /\ HasCall("store", "raise")
    /\ resp.status = 200
    /\ resp.body.answer = "llm_answer"

\* how many chunks a retrieval returns: a matter of top_k, candidate_k and the
\* number of rows that pass the filters, never of the scores
ExpectedReturned ==
    LET total == Cardinality(Available)
        ck == IF ret.candidate_k = None THEN Max(ret.top_k, DefaultCandidateK)
              ELSE ret.candidate_k[1]
    IN  Len(PySlice([i \in 1..Max(Min(ck, total), 0) |-> i], ret.top_k))

\* C12: the status of a retrieval that returns chunks is decided by the highest
\* score m of the returned chunks alone: very_low_confidence iff m < 0.2,
\* low_confidence iff 0.2 <= m < 0.4, ok iff m >= 0.4; and the chunks returned
\* are the nearest ones, as many as top_k and candidate_k allow, whatever the
\* status is.
C12_ClassificationByMaxScore ==
    (ret.called /\ ret.chunks # <<>>) =>
        LET scores == ret.debug.scores
            m == MaxSeq(scores)
            status == ret.debug.status
        IN  /\ scores = [i \in 1..Len(ret.chunks) |-> 100 - store[ret.chunks[i]].distance]
            /\ ret.debug.max_score = m
            /\ status \in {"very_low_confidence", "low_confidence", "ok"}
            /\ status = "very_low_confidence" <=> m < 20
            /\ status = "low_confidence" <=> (20 <= m /\ m < 40)
            /\ status = "ok" <=> m >= 40
            /\ Len(ret.chunks) = ExpectedReturned
            /\ SeqRange(ret.chunks) \subseteq Available
            /\ \A i, j \in 1..Len(ret.chunks) : i # j => ret.chunks[i] # ret.chunks[j]
            /\ \A i \in SeqRange(ret.chunks) : \A j \in Available \ SeqRange(ret.chunks) :
                   store[i].distance <= store[j].distance

C12_Witness ==
    /\ ret.called /\ Len(ret.chunks) = 2
    /\ ret.debug.status = "low_confidence"
    /\ MaxSeq(ret.debug.scores) = 20
    /\ ret.debug.scores[2] = 19

\* the keys of the diagnostics contract
DiagnosticsKeys ==
    {"status", "scores", "max_score", "avg_score", "top_k", "candidate_k",
     "total_available", "returned", "filters"}

\* C13 (as claimed): the diagnostics of every retrieval, and the diagnostics a
\* chat request holds once its retrieval step is over (the fallback paths
\* included), hold every key of the contract.
C13_DiagnosticsPopulated ==
    /\ ret.called => DiagnosticsKeys \subseteq DOMAIN ret.debug
    /\ (req.view = "chat" /\ req.debug.status # "unset") =>
          DiagnosticsKeys \subseteq DOMAIN req.debug

\* ---- chunk_text
NonSpace(t) == SelectSeq(t, LAMBDA c : c # " ")
Drop(t, k) == SubSeq(t, Min(k, Len(t)) + 1, Len(t))

\* the segments concatenated, the first `overlap` characters of every segment
\* but the first discarded
RECURSIVE GlueTail(_, _)
GlueTail(chunks, overlap) ==
    IF chunks = <<>> THEN <<>>
    ELSE Drop(Head(chunks), overlap) \o GlueTail(Tail(chunks), overlap)
Glue(chunks, overlap) ==
    IF chunks = <<>> THEN <<>> ELSE Head(chunks) \o GlueTail(Tail(chunks), overlap)

\* the segments concatenated, of every segment only the part that lies beyond
\* position `upto` of the text, the end of what the segments before it hold
RECURSIVE GlueSpans(_, _, _)
GlueSpans(chunks, spans, upto) ==
    IF chunks = <<>> THEN <<>>
    ELSE Drop(Head(chunks), Max(upto - Head(spans).s, 0)) \o
         GlueSpans(Tail(chunks), Tail(spans), Max(upto, Head(spans).e))

\* chunk_text has returned from a call with max_chars >= 1 and overlap >= 0
ChunkDone == chunker.pc = "done" /\ chunker.max_chars >= 1 /\ chunker.overlap >= 0

\* C14 (as claimed): for a text without white space at its ends, the segments
\* concatenated after discarding the overlap of consecutive segments are the
\* text, and every character of the text is in a segment.
C14_Lossless ==
    (ChunkDone /\ chunker.raw = chunker.text) =>
        /\ Glue(chunker.chunks, chunker.overlap) = chunker.raw
        /\ \A p \in 1..Len(chunker.text) :
              \E i \in 1..Len(chunker.spans) :
                 chunker.spans[i].s < p /\ p <= chunker.spans[i].e

\* C14 (amended): chunk_text is lossless up to white space. Every segment is a
\* piece of the text without white space at its ends, the pieces come in the
\* order of the text and consecutive pieces share at most the (clamped)
\* overlap; every character of the text that is not white space is in a
\* segment, and the segments concatenated, of each only what lies beyond the
\* segments before it, are the text with its white space removed.
C14_LosslessUpToWhiteSpace ==
    ChunkDone =>
        LET text == chunker.text
            chunks == chunker.chunks
            spans == chunker.spans
        IN  /\ Len(spans) = Len(chunks)
            /\ \A i \in 1..Len(chunks) :
                  /\ chunks[i] # <<>>
                  /\ chunks[i] = SubSeq(text, spans[i].s + 1, spans[i].e)
                  /\ chunks[i] = Strip(chunks[i])
            /\ \A i \in 1..(Len(chunks) - 1) :
                  /\ spans[i].s <= spans[i + 1].s
                  /\ spans[i].e <= spans[i + 1].e
                  /\ spans[i].e - spans[i + 1].s <= chunker.overlap
            /\ \A p \in 1..Len(text) :
                  text[p] # " " => \E i \in 1..Len(spans) : spans[i].s < p /\ p <= spans[i].e
            /\ NonSpace(GlueSpans(chunks, spans, 0)) = NonSpace(chunker.raw)

C14_Witness ==
    /\ ChunkDone
    /\ Len(chunker.chunks) >= 2
    /\ chunker.overlap = 1
    /\ NonSpace(chunker.text) # chunker.text
    /\ chunker.chunks[1] = <<"a">>
    /\ chunker.spans[2].s >= 2

\* ---- index building
\* the text whose embedding an index builder stores with the chunk
OwnText(chunk) ==
    IF chunk.tags \in {"doc", "uploaded_doc"} THEN chunk.content
    ELSE TitledText(chunk.title, chunk.content)

\* the chunk a piece of work would have created
SameChunk(chunk, w) ==
    /\ chunk.source_type = w.source_type
    /\ IsIntegerValue(w.source_id) /\ chunk.source_id = w.source_id.int
    /\ chunk.content = w.content
    /\ chunk.tags = w.tags

\* C15: whatever rebuilds and uploads ran and whichever embedding calls
\* failed, every chunk of the table holds the vector a successful embedding
\* call returned for its own text, and no chunk whose embedding call failed in
\* the running operation is in the table.
C15_ValidVectors ==
    /\ \A i \in 1..Len(store) :
          /\ "of" \in DOMAIN store[i].vector
          /\ store[i].vector = VectorOf(OwnText(store[i]))
    /\ \A w \in indexer.embed_failed : \A i \in 1..Len(store) : ~SameChunk(store[i], w)

C15_Witness ==
    /\ indexer.op = "upload" /\ indexer.pc = "over" /\ indexer.outcome = "returned"
    /\ indexer.embed_failed # {}
    /\ \E i \in 1..Len(store) : store[i].tags = "uploaded_doc"
    /\ \E i \in 1..Len(store) : store[i].tags = "roadmap"

\* C16 (as claimed): when a rebuild has raised, the table holds the chunks it
\* held when the rebuild began.
C16_RebuildAllOrNothing ==
    (indexer.op = "rebuild" /\ indexer.pc = "over" /\ indexer.outcome = "raised") =>
        store = indexer.before

\* ---- the models
\* C17: deleting an item, directly or with its section, deletes no learning
\* entry; the entries that referred to a deleted item refer to no item and the
\* other entries are as they were; and no entry ever refers to an item that
\* does not exist.
C17_WeakReference ==
    /\ \A e \in tables.logs : e.roadmap_item # None => e.roadmap_item[1] \in Ids(tables.items)
    /\ tables.last.op \in {"delete_item", "delete_section"} =>
          /\ Ids(tables.logs) = Ids(tables.last.logs_before)
          /\ \A b \in tables.last.logs_before :
                IF b.roadmap_item # None /\ b.roadmap_item[1] \in tables.last.items_deleted
                THEN [b EXCEPT !.roadmap_item = None] \in tables.logs
                ELSE b \in tables.logs

C17_Witness ==
    /\ tables.last.op = "delete_section"
    /\ \E b \in tables.last.logs_before :
          /\ b.roadmap_item # None
          /\ b.roadmap_item[1] \in tables.last.items_deleted
          /\ [b EXCEPT !.roadmap_item = None] \in tables.logs

\* the candidates of the event that resolve: confidence at least the threshold
\* and an item that carries the names they give
Resolving ==
    {i \in 1..Len(matcher.llm_candidates) :
        /\ matcher.llm_candidates[i].confidence >= ConfidenceThreshold
        /\ CandidateRows(matcher.items, matcher.llm_candidates[i]) # <<>>}

\* the lexical score of every item for the text of the event
Scores ==
    [i \in 1..Len(matcher.items) |->
        ItemScore(matcher.items[i],
                  LowerStr(JoinNonEmpty(<<matcher.summary, matcher.raw>>, " ")),
                  matcher.files, matcher.llm_candidates)]

\* the items whose title is in the messages
Titled ==
    {i \in 1..Len(matcher.items) :
        InStr(LowerStr(matcher.items[i].title), LowerStr(Join(matcher.messages, " ")))}

\* C18: the item of an event is the item of the most confident candidate that
\* resolves (confidence >= 0.6); with no such candidate, the first item of
\* the highest lexical score when the event has text and that score reaches
\* the threshold; otherwise the first item whose title is in the messages;
\* otherwise none
C18_PriorityOrder ==
    matcher.pc = "done" =>
        IF Resolving # {}
        THEN \E i \in Resolving :
                /\ \A j \in Resolving :
                      matcher.llm_candidates[j].confidence
                          <= matcher.llm_candidates[i].confidence
                /\ matcher.roadmap_item_id =
                      Some(CandidateRows(matcher.items, matcher.llm_candidates[i])[1].id)
        ELSE IF /\ matcher.summary \o matcher.raw # ""
                /\ \E i \in 1..Len(matcher.items) : Scores[i] >= MinMatchScore
        THEN \E i \in 1..Len(matcher.items) :
                /\ \A j \in 1..Len(matcher.items) : Scores[j] <= Scores[i]
                /\ \A j \in 1..(i - 1) : Scores[j] < Scores[i]
                /\ matcher.roadmap_item_id = Some(matcher.items[i].id)
        ELSE IF Titled # {}
        THEN \E i \in Titled :
                /\ \A j \in Titled : i <= j
                /\ matcher.roadmap_item_id = Some(matcher.items[i].id)
        ELSE matcher.roadmap_item_id = None

\* a candidate resolves to one item while the text of the event scores
\* highest for the other, and the item of the candidate is chosen
C18_Witness ==
    /\ matcher.pc = "done"
    /\ matcher.llm_match_id # None
    /\ matcher.text_match_id # None
    /\ matcher.llm_match_id # matcher.text_match_id
    /\ matcher.roadmap_item_id = matcher.llm_match_id

\* C19: with the item of "3. RAG Systems" and the item of "2. Agents + MCP",
\* text of retrieval and embedding vocabulary resolves to the RAG item and
\* text of tool and automation vocabulary to the Agents item; with no item
\* there is no match
C19_SectionBias ==
    (matcher.pc = "done" /\ matcher.llm_candidates = <<>> /\ matcher.files = <<>>) =>
        /\ (matcher.items # <<>> /\ matcher.summary \in RetrievalTexts)
              => matcher.text_match_id = Some(RagItem.id)
        /\ (matcher.items # <<>> /\ matcher.summary \in ToolTexts)
              => matcher.text_match_id = Some(AgentsItem.id)
        /\ matcher.items = <<>> => matcher.text_match_id = None

\* the text "embeddings" has no token of the title or the description of an
\* item, and the section bias alone resolves it to the RAG item
C19_Witness ==
    /\ matcher.pc = "done"
    /\ matcher.llm_candidates = <<>>
    /\ matcher.files = <<>>
    /\ matcher.items # <<>>
    /\ matcher.summary = "embeddings"
    /\ matcher.raw = ""
    /\ matcher.text_match_id = Some(RagItem.id)

\* the statuses of a retrieval of low confidence, of a fallback path and of a
\* retrieval that found nothing
FollowUpStatuses ==
    {"low_confidence", "very_low_confidence", "rate_limit_fallback", "db_error_fallback",
     "no_results"}

\* C20: every response of the answer endpoint that carries follow_up_questions
\* carries at most 3; the list is non-empty only when the confidence is low,
\* a fallback path was used or nothing was found; when the retrieval status is
\* ok no follow-up completion is called and the list is empty
C20_FollowUpsBounded ==
    (req.view = "chat" /\ req.pc = "done" /\ "follow_up_questions" \in DOMAIN resp.body) =>
        /\ Len(resp.body.follow_up_questions) <= FollowUpCap
        /\ resp.body.follow_up_questions # <<>>
              => resp.body.retrieval_debug.status \in FollowUpStatuses
        /\ resp.body.retrieval_debug.status = "ok"
              => /\ CallCount("completion_followup") = 0
                 /\ resp.body.follow_up_questions = <<>>

\* a low-confidence answer whose follow-up completion returned more usable
\* lines than the cap, of which the first three are returned
C20_Witness ==
    /\ req.view = "chat" /\ req.pc = "done"
    /\ resp.status = 200
    /\ "follow_up_questions" \in DOMAIN resp.body
    /\ resp.body.retrieval_debug.status \in {"low_confidence", "very_low_confidence"}
    /\ CallCount("completion_followup") = 1
    /\ resp.body.follow_up_questions = <<"question", "question", "question">>

\* C21: an event whose summarization found the LLM unavailable still has its
\* entry, and the content of the entry contains the parsed content of the
\* event
C21_RawContentPersisted ==
    \A i \in 1..Len(entries) :
        entries[i].llm # "ok" => Contains(entries[i].content, <<entries[i].event_content>>)

\* the request carries the HMAC-SHA256 signature of its body under the
\* configured secret
ValidlySigned(r) ==
    /\ r.secret # ""
    /\ r.signature.scheme = "sha256="
    /\ r.signature.sig = Some([key |-> r.secret, message |-> r.body])

\* a push with at least one commit, or a pull request opened, closed,
\* reopened or ready for review
Accepted(r) ==
    /\ ValidlySigned(r)
    /\ r.body.json
    /\ \/ /\ r.event_type = "push"
          /\ "commits" \in DOMAIN r.body.payload
          /\ r.body.payload.commits >= 1
       \/ /\ r.event_type = "pull_request"
          /\ "action" \in DOMAIN r.body.payload
          /\ r.body.payload.action \in
                {"opened", "closed", "reopened", "ready_for_review"}

\* C22: the entries change only while the endpoint serves a validly signed
\* push with a commit or pull request of a supported action; a request that
\* is answered without that leaves the entries as they were, and a validly
\* signed JSON request that is ignored is answered with success
C22_OnlyAcceptedEventsWrite ==
    /\ [][entries' # entries => (hook.pc = "create" /\ Accepted(hook.request))]_vars
    /\ []((hook.pc = "done" /\ ~Accepted(hook.request))
            => /\ entries = hook.before
               /\ (ValidlySigned(hook.request) /\ hook.request.body.json)
                    => (hook.response.success /\ hook.response.status = 200))

\* a validly signed pull request that was opened has been answered 201 with
\* one entry more than before
C22_Witness ==
    /\ hook.pc = "done"
    /\ hook.request.event_type = "pull_request"
    /\ Accepted(hook.request)
    /\ hook.response.status = 201
    /\ Len(entries) = Len(hook.before) + 1

\* the source record a chunk names exists
SourceExists(c) ==
    CASE c.source_type = "roadmap_item" -> c.source_id \in 1..Len(catalog.items)
      [] c.source_type = "learning_entry" -> c.source_id \in 1..Len(catalog.entries)
      [] c.source_type = "site_content" -> c.source_id \in 1..Len(catalog.site)
      [] OTHER -> c.source_id \in 1..Len(uploads)

\* C23: every chunk of the table refers to a source record that exists
C23_ChunksFollowSources ==
    \A i \in 1..Len(store) : SourceExists(store[i])

\* C24: no retrieval is kept from the table while it is rebuilt: whatever the
\* indexer is doing, a retrieval finds the rows the table holds at that
\* moment, no_results when it is empty and at most top_k of them otherwise
C24_RetrievalReadsTheTableAsItIs ==
    [][(~ret.called /\ ret'.called) =>
          /\ (ret'.debug.status = "no_results") = (store = <<>>)
          /\ Len(ret'.chunks) = Min(ChatTopK, Len(store))
          /\ "total_available" \in DOMAIN ret'.debug
                => ret'.debug.total_available = Len(store)]_vars

\* a rebuild of a table that held chunks has returned with chunks in the
\* table, and a retrieval made while it ran found nothing
C24_Witness ==
    /\ ret.called
    /\ ret.window.op = "rebuild" /\ ret.window.pc = "index"
    /\ ret.window.before > 0
    /\ ret.debug.status = "no_results"
    /\ indexer.op = "rebuild" /\ indexer.pc = "over" /\ indexer.outcome = "returned"
    /\ indexer.before # <<>>
    /\ store # <<>>

\* C25: for max_chars >= 1 and any overlap, every pass of the loop of
\* chunk_text that does not end it moves the window start forward, within the
\* text; the call ends; and no segment is longer than max_chars
C25_Terminates ==
    /\ [][(chunker.pc = "loop" /\ chunker'.pc = "loop" /\ chunker.max_chars >= 1)
            => (chunker.start < chunker'.start /\ chunker.start < Len(chunker.text))]_vars
    /\ []((chunker.pc # "idle" /\ chunker.max_chars >= 1)
            => \A i \in 1..Len(chunker.chunks) :
                  Len(chunker.chunks[i]) <= chunker.max_chars)
    /\ ((chunker.pc = "loop" /\ chunker.max_chars >= 1) ~> (chunker.pc = "done"))

\* a call with an overlap as large as max_chars has ended with three segments
C25_Witness ==
    /\ chunker.pc = "done"
    /\ chunker.max_chars = 2
    /\ chunker.overlap = 1
    /\ Len(chunker.chunks) = 3
    /\ chunker.start = 2

\* C26: of two requests with the same delivery id that are served at the
\* same time, at most one creates entries
C26_AtMostOneCreates ==
    \A p, q \in Workers :
        (p # q /\ workers[p].delivery_id # None
               /\ workers[p].delivery_id = workers[q].delivery_id)
            => ~(workers[p].created > 0 /\ workers[q].created > 0)

\* C27: a batch is skipped as duplicate_delivery only when the table holds an
\* entry created for exactly the delivery id of the batch
C27_NoFalseDuplicates ==
    (ingest.pc = "done" /\ result.kind = "returned"
                        /\ result.reason = "duplicate_delivery") =>
        /\ ingest.delivery_id # None
        /\ Carriers(ingest.delivery_id[1]) # {}

\* C28: the item _select_item_from_llm_candidates returns is one that a
\* candidate of confidence >= 0.6 names, by its title, by its section or by
\* both; a candidate that names neither yields no item
C28_CandidateNamesTheItem ==
    (matcher.pc = "done" /\ matcher.llm_match_id # None) =>
        \E i \in 1..Len(matcher.llm_candidates) :
            LET cand == matcher.llm_candidates[i]
                item_name == LowerStr(StripStr(cand.item))
                section_name == LowerStr(StripStr(cand.section))
            IN  /\ cand.confidence >= ConfidenceThreshold
                /\ item_name # "" \/ section_name # ""
                /\ \E k \in 1..Len(matcher.items) :
                      /\ matcher.items[k].id = matcher.llm_match_id[1]
                      /\ item_name # "" => LowerStr(matcher.items[k].title) = item_name
                      /\ section_name # "" =>
                            LowerStr(matcher.items[k].section_title) = section_name

\* C29: after a full rebuild that returns with no embedding failure, every
\* chunk of an uploaded document that was in the store before the rebuild
\* is in the store
C29_RebuildKeepsUploads ==
    (indexer.pc = "over" /\ indexer.op = "rebuild" /\ indexer.outcome = "returned"
                         /\ indexer.embed_failed = {}) =>
        \A i \in 1..Len(indexer.before) :
            indexer.before[i].tags = "uploaded_doc" =>
                \E j \in 1..Len(store) :
                    /\ store[j].source_type = "document"
                    /\ store[j].source_id = indexer.before[i].source_id
                    /\ store[j].content = indexer.before[i].content

\* C30: every chunk of source_type learning_entry whose entry exists is the
\* chunk of an entry that is public now
C30_PrivateEntriesNotIndexed ==
    \A i \in 1..Len(store) :
        (store[i].source_type = "learning_entry"
            /\ store[i].source_id \in 1..Len(catalog.entries)) =>
                catalog.entries[store[i].source_id].is_public

====
